---- MODULE Spec2Model ----
(***************************************************************************)
(* State-transition engine of the life-as-a-game system: the character     *)
(* state, the three pure transitions (time tick, quest start, quest        *)
(* completion) and the engine facade that resolves quest ids against a     *)
(* catalog.  Every operation takes a state and returns a new state plus an *)
(* ordered event list; the model keeps the last returned state, the last   *)
(* returned event list and the call that produced them.  The rules         *)
(* pipeline (filter, rank, select) is a set of pure functions of a state   *)
(* and a quest list; RulesSpec applies each of them to bounded inputs.     *)
(* NarrativeSpec does the same for the narrative summarizer and            *)
(* SerializationSpec for the storage format.  ShippedSpec runs the engine  *)
(* on the shipped quest catalog, and WorkerSpec is the HTTP worker that    *)
(* reads a player's snapshot from the durable object, applies a quest      *)
(* start or completion and writes the snapshot back, saves the receipt of  *)
(* a completion and answers GET /api/quests.  LifecycleSpec runs the same  *)
(* worker on the quests of the lifecycle tests and ReceiptsSpec fills the  *)
(* receipt list of one player.                                             *)
(***************************************************************************)
EXTENDS Integers, Sequences, FiniteSets, TLC

VARIABLES
    state,      \* CharacterState { stats, flags, timeContext }
    events,     \* EngineEvent[] returned by the last engine call
    call,       \* the last engine call: [op, questId, nowMs]
    tickRun,    \* history of the current run of ticks (see Tick)
    rules,      \* the last call of the rules pipeline: its arguments and result
    narr,       \* the last call of the narrative layer: its arguments and result
    ser,        \* the last serialization round trip: its input and output
    completedIds, \* ShippedSpec: the ids of the quests completed so far
    store,      \* WorkerSpec: the 'state' key of the player's durable object
    inflight,   \* WorkerSpec: the requests being handled, by request slot
    clock,      \* WorkerSpec: Date.now()
    statTimes,  \* WorkerSpec: for each stat, the times its stored value changed
    receipts,   \* the 'receipts' key of the player's durable object
    added       \* the number of receipts created so far (the next one's id)

engineVars == <<state, events, call, tickRun>>
pureVars == <<rules, narr, ser>>
workerVars == <<store, inflight, clock, statTimes, receipts, added>>
vars == <<state, events, call, tickRun, rules, narr, ser, completedIds,
          store, inflight, clock, statTimes, receipts, added>>

----------------------------------------------------------------------------
(* Domain types                                                            *)

StatKeys == {"agency", "courage", "order"}

TimeRanges == {"recent", "gap", "long_gap"}

\* An absent (undefined) lastMeaningfulActionMs; timestamps are >= 0.
Undefined == -1

RECENT == 2 * 24 * 60 * 60 * 1000

LONG_GAP == 7 * 24 * 60 * 60 * 1000

----------------------------------------------------------------------------
(* Bounds of the model                                                     *)

\* Completions that would raise a stat above MaxStat are not taken.
MaxStat == 7

\* Timestamps reach MaxWeeks * 7 days.
MaxWeeks == 1

\* The timestamps calls are made at, in milliseconds: both sides of each
\* threshold (measured from 0), and whole weeks.
Times ==
    {0, RECENT - 1, RECENT, LONG_GAP - 1}
        \cup {w * LONG_GAP : w \in 1..MaxWeeks}

Max(a, b) == IF a >= b THEN a ELSE b

----------------------------------------------------------------------------
(* Quest catalog                                                           *)

\* The quests of the catalog, by id.  A consequence field that is absent in
\* the quest object is absent from the record.
Catalog ==
    [ id \in {"quest-clamp", "quest-all", "quest-empty", "quest-drain",
              "quest-both"} |->
        CASE id = "quest-clamp" ->
                [id |-> id, type |-> "agency",
                 consequence |->
                    [statChanges |-> [k \in {"agency", "courage"} |->
                                        IF k = "agency" THEN 2 ELSE -5]]]
          [] id = "quest-all" ->
                [id |-> id, type |-> "order",
                 consequence |->
                    [statChanges |-> [k \in {"agency"} |-> 1],
                     flagsToSet |-> <<"flag-c">>,
                     flagsToClear |-> <<"flag-a">>,
                     unlocksQuests |-> <<"quest-clamp">>]]
          [] id = "quest-empty" ->
                [id |-> id, type |-> "courage",
                 consequence |-> [unlocksQuests |-> <<>>]]
          [] id = "quest-drain" ->
                [id |-> id, type |-> "courage",
                 consequence |->
                    [statChanges |-> [k \in {"order"} |-> -100],
                     flagsToSet |-> <<>>,
                     unlocksQuests |-> <<>>]]
          [] id = "quest-both" ->
                [id |-> id, type |-> "agency",
                 consequence |->
                    [flagsToSet |-> <<"flag-a">>,
                     flagsToClear |-> <<"flag-a">>]] ]

\* Ids callers pass: those of the catalog and one the catalog does not hold.
QuestIds == DOMAIN Catalog \cup {"missing"}

\* catalog.getQuestById(id) !== undefined
HasQuest(id) == id \in DOMAIN Catalog

getQuestById(id) == Catalog[id]

\* An optional array field of a consequence, <<>> when absent.
Field(consequence, name) ==
    IF name \in DOMAIN consequence THEN consequence[name] ELSE <<>>

\* consequence.statChanges, the empty mapping when absent.
StatChangesOf(consequence) ==
    IF "statChanges" \in DOMAIN consequence
    THEN consequence.statChanges
    ELSE [k \in {} |-> 0]

----------------------------------------------------------------------------
(* Pure helpers of the transitions                                         *)

\* Mutant: the thresholds themselves still count as the shorter range.
computeTimeRange_inclusive(lastMeaningfulActionMs, nowMs) ==
    IF lastMeaningfulActionMs = Undefined
    THEN "long_gap"
    ELSE LET elapsedMs == Max(0, nowMs - lastMeaningfulActionMs)
         IN  IF elapsedMs <= RECENT THEN "recent"
             ELSE IF elapsedMs <= LONG_GAP THEN "gap"
             ELSE "long_gap"

computeTimeRange(lastMeaningfulActionMs, nowMs) ==
    IF lastMeaningfulActionMs = Undefined
    THEN "long_gap"
    ELSE LET elapsedMs == Max(0, nowMs - lastMeaningfulActionMs)
         IN  IF elapsedMs < RECENT THEN "recent"
             ELSE IF elapsedMs < LONG_GAP THEN "gap"
             ELSE "long_gap"

\* Mutant: the floor is applied to the delta, not to the sum.
applyStatDeltas_floorDelta(currentStats, deltas) ==
    [k \in StatKeys |->
        IF k \in DOMAIN deltas
        THEN currentStats[k] + Max(0, deltas[k])
        ELSE currentStats[k]]

\* Mutant: no floor at zero.
applyStatDeltas_noFloor(currentStats, deltas) ==
    [k \in StatKeys |->
        IF k \in DOMAIN deltas
        THEN currentStats[k] + deltas[k]
        ELSE currentStats[k]]

applyStatDeltas(currentStats, deltas) ==
    [k \in StatKeys |->
        IF k \in DOMAIN deltas
        THEN Max(0, currentStats[k] + deltas[k])
        ELSE currentStats[k]]

Range(seq) == {seq[i] : i \in 1..Len(seq)}

\* Mutant: flags are cleared before they are set.
applyFlagChanges_clearFirst(currentFlags, flagsToSet, flagsToClear) ==
    (currentFlags \ Range(flagsToClear)) \cup Range(flagsToSet)

applyFlagChanges(currentFlags, flagsToSet, flagsToClear) ==
    (currentFlags \cup Range(flagsToSet)) \ Range(flagsToClear)

\* Mutant: the time context keeps the nowMs it had.
updateTimeContext_keepNow(currentContext, newRange, nowMs, lastMeaningfulActionMs) ==
    [range |-> newRange,
     nowMs |-> currentContext.nowMs,
     lastMeaningfulActionMs |->
        IF lastMeaningfulActionMs = Undefined
        THEN currentContext.lastMeaningfulActionMs
        ELSE lastMeaningfulActionMs]

\* Mutant: the stored last meaningful action wins over the one passed in.
updateTimeContext_keepLast(currentContext, newRange, nowMs, lastMeaningfulActionMs) ==
    [range |-> newRange,
     nowMs |-> nowMs,
     lastMeaningfulActionMs |->
        IF currentContext.lastMeaningfulActionMs = Undefined
        THEN lastMeaningfulActionMs
        ELSE currentContext.lastMeaningfulActionMs]

updateTimeContext(currentContext, newRange, nowMs, lastMeaningfulActionMs) ==
    [range |-> newRange,
     nowMs |-> nowMs,
     lastMeaningfulActionMs |->
        IF lastMeaningfulActionMs = Undefined
        THEN currentContext.lastMeaningfulActionMs
        ELSE lastMeaningfulActionMs]

----------------------------------------------------------------------------
(* Transitions: each returns [state, events]                               *)

\* A record holding field `to` = rec[from] when rec has the field `from`,
\* and nothing otherwise (an undefined property).
Optional(rec, from, to) ==
    IF from \in DOMAIN rec THEN to :> rec[from] ELSE [x \in {} |-> 0]

TimeContextChanged(previousRange, newRange) ==
    IF previousRange # newRange
    THEN << [type |-> "time_context_changed",
             previousRange |-> previousRange,
             newRange |-> newRange] >>
    ELSE << >>

\* Mutant: time_context_changed is emitted on every start.
applyQuestStarted_alwaysChanged(st, questId, questType, nowMs) ==
    [state |-> [st EXCEPT !.timeContext =
                    updateTimeContext(st.timeContext, "recent", nowMs, nowMs)],
     events |->
        << [type |-> "time_context_changed",
            previousRange |-> st.timeContext.range,
            newRange |-> "recent"],
           [type |-> "quest_started",
            questId |-> questId,
            questType |-> questType] >>]

applyQuestStarted(st, questId, questType, nowMs) ==
    LET newRange == "recent"
        previousRange == st.timeContext.range
        newTimeContext ==
            updateTimeContext(st.timeContext, newRange, nowMs, nowMs)
    IN  [state |-> [st EXCEPT !.timeContext = newTimeContext],
         events |->
            TimeContextChanged(previousRange, newRange)
              \o << [type |-> "quest_started",
                     questId |-> questId,
                     questType |-> questType] >>]

\* Mutant: stat_changed and flag_changed are emitted only when the stats or
\* the flag set actually changed.
applyQuestCompleted_onChange(st, quest, nowMs) ==
    LET consequence == quest.consequence
        statChanges == StatChangesOf(consequence)
        newStats == applyStatDeltas(st.stats, statChanges)
        flagsToSet == Field(consequence, "flagsToSet")
        flagsToClear == Field(consequence, "flagsToClear")
        newFlags == applyFlagChanges(st.flags, flagsToSet, flagsToClear)
        unlocksQuests == Field(consequence, "unlocksQuests")
    IN  [state |->
            [stats |-> newStats,
             flags |-> newFlags,
             timeContext |->
                updateTimeContext(st.timeContext, "recent", nowMs, nowMs)],
         events |->
            (IF newStats # st.stats
             THEN << [type |-> "stat_changed", deltas |-> statChanges] >>
             ELSE << >>)
              \o (IF newFlags # st.flags
                  THEN << [type |-> "flag_changed"]
                            @@ Optional(consequence, "flagsToSet", "flagsSet")
                            @@ Optional(consequence, "flagsToClear", "flagsCleared") >>
                  ELSE << >>)
              \o (IF Len(unlocksQuests) > 0
                  THEN << [type |-> "quests_unlocked",
                           questIds |-> unlocksQuests] >>
                  ELSE << >>)
              \o TimeContextChanged(st.timeContext.range, "recent")
              \o << [type |-> "quest_completed",
                     questId |-> quest.id,
                     questType |-> quest.type] >>]

\* Mutant: quest_completed is pushed before the time context is updated.
applyQuestCompleted_completedEarly(st, quest, nowMs) ==
    LET consequence == quest.consequence
        statChanges == StatChangesOf(consequence)
        hasStatChanges == DOMAIN statChanges # {}
        flagsToSet == Field(consequence, "flagsToSet")
        flagsToClear == Field(consequence, "flagsToClear")
        hasFlagChanges == Len(flagsToSet) > 0 \/ Len(flagsToClear) > 0
        unlocksQuests == Field(consequence, "unlocksQuests")
    IN  [state |->
            [stats |-> IF hasStatChanges
                       THEN applyStatDeltas(st.stats, statChanges)
                       ELSE st.stats,
             flags |-> IF hasFlagChanges
                       THEN applyFlagChanges(st.flags, flagsToSet, flagsToClear)
                       ELSE st.flags,
             timeContext |->
                updateTimeContext(st.timeContext, "recent", nowMs, nowMs)],
         events |->
            (IF hasStatChanges
             THEN << [type |-> "stat_changed", deltas |-> statChanges] >>
             ELSE << >>)
              \o (IF hasFlagChanges
                  THEN << [type |-> "flag_changed"]
                            @@ Optional(consequence, "flagsToSet", "flagsSet")
                            @@ Optional(consequence, "flagsToClear", "flagsCleared") >>
                  ELSE << >>)
              \o (IF Len(unlocksQuests) > 0
                  THEN << [type |-> "quests_unlocked",
                           questIds |-> unlocksQuests] >>
                  ELSE << >>)
              \o << [type |-> "quest_completed",
                     questId |-> quest.id,
                     questType |-> quest.type] >>
              \o TimeContextChanged(st.timeContext.range, "recent")]

\* Mutant: stat_changed reports the change each stat actually made.
applyQuestCompleted_effectiveDeltas(st, quest, nowMs) ==
    LET consequence == quest.consequence
        statChanges == StatChangesOf(consequence)
        hasStatChanges == DOMAIN statChanges # {}
        newStats ==
            IF hasStatChanges
            THEN applyStatDeltas(st.stats, statChanges)
            ELSE st.stats
        flagsToSet == Field(consequence, "flagsToSet")
        flagsToClear == Field(consequence, "flagsToClear")
        hasFlagChanges == Len(flagsToSet) > 0 \/ Len(flagsToClear) > 0
        unlocksQuests == Field(consequence, "unlocksQuests")
    IN  [state |->
            [stats |-> newStats,
             flags |-> IF hasFlagChanges
                       THEN applyFlagChanges(st.flags, flagsToSet, flagsToClear)
                       ELSE st.flags,
             timeContext |->
                updateTimeContext(st.timeContext, "recent", nowMs, nowMs)],
         events |->
            (IF hasStatChanges
             THEN << [type |-> "stat_changed",
                      deltas |-> [k \in DOMAIN statChanges |->
                                    newStats[k] - st.stats[k]]] >>
             ELSE << >>)
              \o (IF hasFlagChanges
                  THEN << [type |-> "flag_changed"]
                            @@ Optional(consequence, "flagsToSet", "flagsSet")
                            @@ Optional(consequence, "flagsToClear", "flagsCleared") >>
                  ELSE << >>)
              \o (IF Len(unlocksQuests) > 0
                  THEN << [type |-> "quests_unlocked",
                           questIds |-> unlocksQuests] >>
                  ELSE << >>)
              \o TimeContextChanged(st.timeContext.range, "recent")
              \o << [type |-> "quest_completed",
                     questId |-> quest.id,
                     questType |-> quest.type] >>]

applyQuestCompleted(st, quest, nowMs) ==
    LET consequence == quest.consequence
        statChanges == StatChangesOf(consequence)
        hasStatChanges == DOMAIN statChanges # {}
        newStats ==
            IF hasStatChanges
            THEN applyStatDeltas(st.stats, statChanges)
            ELSE st.stats
        flagsToSet == Field(consequence, "flagsToSet")
        flagsToClear == Field(consequence, "flagsToClear")
        hasFlagChanges == Len(flagsToSet) > 0 \/ Len(flagsToClear) > 0
        newFlags ==
            IF hasFlagChanges
            THEN applyFlagChanges(st.flags, flagsToSet, flagsToClear)
            ELSE st.flags
        unlocksQuests == Field(consequence, "unlocksQuests")
        newRange == "recent"
        previousRange == st.timeContext.range
        newTimeContext ==
            updateTimeContext(st.timeContext, newRange, nowMs, nowMs)
    IN  [state |-> [stats |-> newStats,
                    flags |-> newFlags,
                    timeContext |-> newTimeContext],
         events |->
            (IF hasStatChanges
             THEN << [type |-> "stat_changed", deltas |-> statChanges] >>
             ELSE << >>)
              \o (IF hasFlagChanges
                  THEN << [type |-> "flag_changed"]
                            @@ Optional(consequence, "flagsToSet", "flagsSet")
                            @@ Optional(consequence, "flagsToClear", "flagsCleared") >>
                  ELSE << >>)
              \o (IF Len(unlocksQuests) > 0
                  THEN << [type |-> "quests_unlocked",
                           questIds |-> unlocksQuests] >>
                  ELSE << >>)
              \o TimeContextChanged(previousRange, newRange)
              \o << [type |-> "quest_completed",
                     questId |-> quest.id,
                     questType |-> quest.type] >>]

\* Mutant: the range is computed from the time of the previous call.
applyTimeTick_sinceLastCall(st, nowMs) ==
    LET newRange == computeTimeRange(st.timeContext.nowMs, nowMs)
        previousRange == st.timeContext.range
        newTimeContext ==
            updateTimeContext(st.timeContext, newRange, nowMs,
                              st.timeContext.lastMeaningfulActionMs)
    IN  [state |-> [st EXCEPT !.timeContext = newTimeContext],
         events |->
            TimeContextChanged(previousRange, newRange)
              \o (IF /\ newRange \in {"gap", "long_gap"}
                     /\ previousRange \notin {"gap", "long_gap"}
                  THEN << [type |-> "re_entry_suggested",
                           currentRange |-> newRange] >>
                  ELSE << >>)]

\* Mutant: a long gap costs one point of every stat.
applyTimeTick_decay(st, nowMs) ==
    LET newRange ==
            computeTimeRange(st.timeContext.lastMeaningfulActionMs, nowMs)
        previousRange == st.timeContext.range
    IN  [state |->
            [stats |-> IF newRange = "long_gap"
                       THEN [k \in StatKeys |-> Max(0, st.stats[k] - 1)]
                       ELSE st.stats,
             flags |-> st.flags,
             timeContext |->
                updateTimeContext(st.timeContext, newRange, nowMs,
                                  st.timeContext.lastMeaningfulActionMs)],
         events |->
            TimeContextChanged(previousRange, newRange)
              \o (IF /\ newRange \in {"gap", "long_gap"}
                     /\ previousRange \notin {"gap", "long_gap"}
                  THEN << [type |-> "re_entry_suggested",
                           currentRange |-> newRange] >>
                  ELSE << >>)]

\* Mutant: re-entry is suggested on every change into gap or long_gap.
applyTimeTick_onChange(st, nowMs) ==
    LET newRange ==
            computeTimeRange(st.timeContext.lastMeaningfulActionMs, nowMs)
        previousRange == st.timeContext.range
    IN  [state |-> [st EXCEPT !.timeContext =
                        updateTimeContext(st.timeContext, newRange, nowMs,
                                          st.timeContext.lastMeaningfulActionMs)],
         events |->
            TimeContextChanged(previousRange, newRange)
              \o (IF /\ newRange \in {"gap", "long_gap"}
                     /\ previousRange # newRange
                  THEN << [type |-> "re_entry_suggested",
                           currentRange |-> newRange] >>
                  ELSE << >>)]

\* Mutant: re-entry is suggested on every tick that finds a gap.
applyTimeTick_noEdge(st, nowMs) ==
    LET newRange ==
            computeTimeRange(st.timeContext.lastMeaningfulActionMs, nowMs)
        previousRange == st.timeContext.range
    IN  [state |-> [st EXCEPT !.timeContext =
                        updateTimeContext(st.timeContext, newRange, nowMs,
                                          st.timeContext.lastMeaningfulActionMs)],
         events |->
            TimeContextChanged(previousRange, newRange)
              \o (IF newRange \in {"gap", "long_gap"}
                  THEN << [type |-> "re_entry_suggested",
                           currentRange |-> newRange] >>
                  ELSE << >>)]

\* Mutant: the returned state keeps the stored range.
applyTimeTick_staleRange(st, nowMs) ==
    LET newRange ==
            computeTimeRange(st.timeContext.lastMeaningfulActionMs, nowMs)
        previousRange == st.timeContext.range
    IN  [state |-> [st EXCEPT !.timeContext =
                        updateTimeContext(st.timeContext, previousRange, nowMs,
                                          st.timeContext.lastMeaningfulActionMs)],
         events |->
            TimeContextChanged(previousRange, newRange)
              \o (IF /\ newRange \in {"gap", "long_gap"}
                     /\ previousRange \notin {"gap", "long_gap"}
                  THEN << [type |-> "re_entry_suggested",
                           currentRange |-> newRange] >>
                  ELSE << >>)]

applyTimeTick(st, nowMs) ==
    LET newRange ==
            computeTimeRange(st.timeContext.lastMeaningfulActionMs, nowMs)
        previousRange == st.timeContext.range
        newTimeContext ==
            updateTimeContext(st.timeContext, newRange, nowMs,
                              st.timeContext.lastMeaningfulActionMs)
    IN  [state |-> [st EXCEPT !.timeContext = newTimeContext],
         events |->
            TimeContextChanged(previousRange, newRange)
              \o (IF /\ newRange \in {"gap", "long_gap"}
                     /\ previousRange \notin {"gap", "long_gap"}
                  THEN << [type |-> "re_entry_suggested",
                           currentRange |-> newRange] >>
                  ELSE << >>)]

----------------------------------------------------------------------------
(* Engine facade                                                           *)

tick(st, nowMs) == applyTimeTick(st, nowMs)

\* Mutant: starting a quest applies its consequence.
startQuest_applies(st, questId, nowMs) ==
    IF ~HasQuest(questId)
    THEN [state |-> st, events |-> << >>]
    ELSE LET started ==
                applyQuestStarted(st, questId, getQuestById(questId).type, nowMs)
             completed == applyQuestCompleted(st, getQuestById(questId), nowMs)
         IN  [state |-> completed.state, events |-> started.events]

startQuest(st, questId, nowMs) ==
    IF ~HasQuest(questId)
    THEN [state |-> st, events |-> << >>]
    ELSE applyQuestStarted(st, questId, getQuestById(questId).type, nowMs)

\* Mutant: a completion of an unknown quest still counts as a meaningful
\* action.
completeQuest_touches(st, questId, nowMs) ==
    IF ~HasQuest(questId)
    THEN [state |-> [st EXCEPT !.timeContext =
                        updateTimeContext(st.timeContext, "recent", nowMs, nowMs)],
          events |-> << >>]
    ELSE applyQuestCompleted(st, getQuestById(questId), nowMs)

completeQuest(st, questId, nowMs) ==
    IF ~HasQuest(questId)
    THEN [state |-> st, events |-> << >>]
    ELSE applyQuestCompleted(st, getQuestById(questId), nowMs)

----------------------------------------------------------------------------
(* The engine driven by a caller                                           *)

\* Event kinds present in an event list.
Kinds(evs) == {evs[i].type : i \in 1..Len(evs)}

\* Number of events of a kind in an event list.
Count(evs, kind) == Cardinality({i \in 1..Len(evs) : evs[i].type = kind})

\* The stats of a new player.
InitStats == { [agency |-> 5, courage |-> 3, order |-> 4] }

\* No engine call made yet.
NoCall == [op |-> "none", questId |-> "missing", nowMs |-> 0]

\* No tick since the last start or completion of a catalog quest.
NoRun == [ticked |-> FALSE, reEntries |-> 0]

\* No call of the rules pipeline made.
NoRules ==
    [op |-> "none", quests |-> << >>, nowMs |-> 0, maxChoices |-> 0,
     result |-> << >>]

\* No call of the narrative layer made.  A result is the set of the summaries
\* returned: empty for null.
NoNarr == [op |-> "none", events |-> << >>, result |-> {}]

\* No serialization round trip made.
NoSer == [op |-> "none"]

\* The variables of the other layers, at rest.
PureIdle == rules = NoRules /\ narr = NoNarr /\ ser = NoSer

WorkerIdle ==
    /\ completedIds = {}
    /\ store = {}
    /\ inflight = << >>
    /\ clock = 0
    /\ statTimes = << >>
    /\ receipts = << >>
    /\ added = 0

\* The states a caller starts from: the stats of a new player, with empty or
\* non-empty flags, any stored range, and a last meaningful action that is
\* absent or at time 0.  A new player has no flags, range long_gap and no
\* last meaningful action; the other states are those a stored snapshot can
\* hand to the engine, its range not necessarily the one its timestamps give.
Init ==
    /\ state \in [stats : InitStats,
                  flags : {{}, {"flag-a"}},
                  timeContext : [range : TimeRanges,
                                 nowMs : {0},
                                 lastMeaningfulActionMs : {Undefined, 0}]]
    /\ events = << >>
    /\ call = NoCall
    /\ tickRun = NoRun
    /\ PureIdle
    /\ WorkerIdle

\* tick(state, nowMs).  tickRun follows the current run of ticks with
\* non-decreasing nowMs: a tick that goes back in time starts a new run, and
\* reEntries counts the re_entry_suggested events the run has emitted.
Tick ==
    \E nowMs \in Times :
        LET r == tick(state, nowMs)
            emitted == Count(r.events, "re_entry_suggested")
            continues == tickRun.ticked /\ nowMs >= state.timeContext.nowMs
        IN  /\ state' = r.state
            /\ events' = r.events
            /\ call' = [op |-> "tick", questId |-> "missing", nowMs |-> nowMs]
            /\ tickRun' =
                [ticked |-> TRUE,
                 reEntries |->
                    IF continues THEN tickRun.reEntries + emitted ELSE emitted]
            /\ UNCHANGED <<pureVars, completedIds, workerVars>>

\* startQuest(state, questId, catalog, nowMs).  A start on a found quest
\* ends the run of ticks.
StartQuest ==
    \E questId \in QuestIds, nowMs \in Times :
        LET r == startQuest(state, questId, nowMs)
        IN  /\ state' = r.state
            /\ events' = r.events
            /\ call' = [op |-> "startQuest", questId |-> questId, nowMs |-> nowMs]
            /\ tickRun' = IF HasQuest(questId) THEN NoRun ELSE tickRun
            /\ UNCHANGED <<pureVars, completedIds, workerVars>>

\* completeQuest(state, questId, catalog, nowMs), not taken when it would
\* raise a stat above MaxStat.
CompleteQuest ==
    \E questId \in QuestIds, nowMs \in Times :
        LET r == completeQuest(state, questId, nowMs)
        IN  /\ \A k \in StatKeys : r.state.stats[k] <= MaxStat
            /\ state' = r.state
            /\ events' = r.events
            /\ call' = [op |-> "completeQuest", questId |-> questId, nowMs |-> nowMs]
            /\ tickRun' = IF HasQuest(questId) THEN NoRun ELSE tickRun
            /\ UNCHANGED <<pureVars, completedIds, workerVars>>

Next == Tick \/ StartQuest \/ CompleteQuest

Spec == Init /\ [][Next]_vars

TypeOK ==
    /\ state.stats \in [StatKeys -> Int]
    /\ state.timeContext.range \in TimeRanges
    /\ state.timeContext.nowMs \in Times
    /\ state.timeContext.lastMeaningfulActionMs \in Times \cup {Undefined}

----------------------------------------------------------------------------
(* Rules pipeline: availability, ranking, selection                        *)

\* An object with no properties.
Empty == [x \in {} |-> 0]

\* An optional property of an object, `default` when absent.
Prop(obj, name, default) == IF name \in DOMAIN obj THEN obj[name] ELSE default

\* Mutant: a stat equal to its minimum does not meet it.
meetsStatRequirements_strict(st, statReq) ==
    IF "minimum" \notin DOMAIN statReq
    THEN TRUE
    ELSE \A statKey \in DOMAIN statReq.minimum :
            ~(st.stats[statKey] <= statReq.minimum[statKey])

meetsStatRequirements(st, statReq) ==
    IF "minimum" \notin DOMAIN statReq
    THEN TRUE
    ELSE \A statKey \in DOMAIN statReq.minimum :
            ~(st.stats[statKey] < statReq.minimum[statKey])

\* Mutant: blocked flags are not looked at.
meetsFlagRequirements_requiredOnly(st, flagReq) ==
    LET required == Prop(flagReq, "required", << >>)
    IN  Len(required) > 0 => \A i \in 1..Len(required) : required[i] \in st.flags

meetsFlagRequirements(st, flagReq) ==
    LET required == Prop(flagReq, "required", << >>)
        blocked == Prop(flagReq, "blocked", << >>)
    IN  /\ Len(required) > 0 => \A i \in 1..Len(required) : required[i] \in st.flags
        /\ Len(blocked) > 0 => \A i \in 1..Len(blocked) : blocked[i] \notin st.flags

\* Mutant: a quest that prefers other ranges than the current one is not
\* available.
isQuestAvailable_timeGate(st, quest, nowMs) ==
    LET availability == quest.availability
        relevance == Prop(availability, "relevance", Empty)
        preferredRanges == Prop(relevance, "preferredRanges", << >>)
    IN  /\ "stats" \in DOMAIN availability
                => meetsStatRequirements(st, availability.stats)
        /\ "flags" \in DOMAIN availability
                => meetsFlagRequirements(st, availability.flags)
        /\ Len(preferredRanges) > 0
                => st.timeContext.range \in Range(preferredRanges)

isQuestAvailable(st, quest, nowMs) ==
    LET availability == quest.availability
    IN  /\ "stats" \in DOMAIN availability
                => meetsStatRequirements(st, availability.stats)
        /\ "flags" \in DOMAIN availability
                => meetsFlagRequirements(st, availability.flags)

filterAvailableQuests(st, quests, nowMs) ==
    LET Available(quest) == isQuestAvailable(st, quest, nowMs)
    IN  SelectSeq(quests, Available)

\* quest.availability.relevance?.preferredRanges ?? []
PreferredRanges(quest) ==
    Prop(Prop(quest.availability, "relevance", Empty), "preferredRanges", << >>)

\* The test rankQuests sorts a quest into `matched` by.
TimeMatched(quest, currentRange) ==
    LET preferredRanges == PreferredRanges(quest)
    IN  Len(preferredRanges) > 0 /\ currentRange \in Range(preferredRanges)

Reverse(seq) == [i \in 1..Len(seq) |-> seq[Len(seq) + 1 - i]]

\* Mutant: each matched quest is put in front of the ones matched before it.
rankQuests_unshift(st, quests, nowMs) ==
    LET currentRange == st.timeContext.range
        Matched(quest) == TimeMatched(quest, currentRange)
        Unmatched(quest) == ~TimeMatched(quest, currentRange)
    IN  Reverse(SelectSeq(quests, Matched)) \o SelectSeq(quests, Unmatched)

rankQuests(st, quests, nowMs) ==
    LET currentRange == st.timeContext.range
        Matched(quest) == TimeMatched(quest, currentRange)
        Unmatched(quest) == ~TimeMatched(quest, currentRange)
    IN  SelectSeq(quests, Matched) \o SelectSeq(quests, Unmatched)

\* selected.includes(quest)
Includes(selected, quest) == \E i \in 1..Len(selected) : selected[i] = quest

\* First pass of selectQuestChoices from position i on: one quest of each
\* type not used yet, until maxChoices are selected.
RECURSIVE FirstPass(_, _, _, _)
FirstPass(quests, i, selected, maxChoices) ==
    IF i > Len(quests) \/ Len(selected) >= maxChoices
    THEN selected
    ELSE LET usedTypes == {selected[j].type : j \in 1..Len(selected)}
         IN  IF quests[i].type \notin usedTypes
             THEN FirstPass(quests, i + 1, Append(selected, quests[i]), maxChoices)
             ELSE FirstPass(quests, i + 1, selected, maxChoices)

\* Second pass from position i on: the quests not selected yet, until
\* maxChoices are selected.
RECURSIVE SecondPass(_, _, _, _)
SecondPass(quests, i, selected, maxChoices) ==
    IF i > Len(quests) \/ Len(selected) >= maxChoices
    THEN selected
    ELSE IF ~Includes(selected, quests[i])
         THEN SecondPass(quests, i + 1, Append(selected, quests[i]), maxChoices)
         ELSE SecondPass(quests, i + 1, selected, maxChoices)

\* Mutant: the second pass fills the remaining slots from the end of the list.
selectQuestChoices_fillFromEnd(st, quests, nowMs, maxChoices) ==
    IF Len(quests) = 0
    THEN << >>
    ELSE IF Len(quests) <= maxChoices
    THEN quests
    ELSE SecondPass(Reverse(quests), 1, FirstPass(quests, 1, << >>, maxChoices),
                    maxChoices)

\* Mutant: no second pass.
selectQuestChoices_firstPassOnly(st, quests, nowMs, maxChoices) ==
    IF Len(quests) = 0
    THEN << >>
    ELSE IF Len(quests) <= maxChoices
    THEN quests
    ELSE FirstPass(quests, 1, << >>, maxChoices)

\* Mutant: the first maxChoices quests, whatever their types.
selectQuestChoices_takeFirst(st, quests, nowMs, maxChoices) ==
    IF Len(quests) = 0
    THEN << >>
    ELSE IF Len(quests) <= maxChoices
    THEN quests
    ELSE SubSeq(quests, 1, maxChoices)

selectQuestChoices(st, quests, nowMs, maxChoices) ==
    IF Len(quests) = 0
    THEN << >>
    ELSE IF Len(quests) <= maxChoices
    THEN quests
    ELSE SecondPass(quests, 1, FirstPass(quests, 1, << >>, maxChoices), maxChoices)

\* Mutant: the available quests are not ranked before the selection.
chooseQuests_noRank(st, quests, nowMs, maxChoices) ==
    selectQuestChoices(st, filterAvailableQuests(st, quests, nowMs), nowMs,
                       maxChoices)

chooseQuests(st, quests, nowMs, maxChoices) ==
    LET available == filterAvailableQuests(st, quests, nowMs)
        ranked == rankQuests(st, available, nowMs)
    IN  selectQuestChoices(st, ranked, nowMs, maxChoices)

----------------------------------------------------------------------------
(* The rules pipeline applied to bounded inputs                            *)

\* Quest lists hold at most MaxLen quests.
MaxLen == 4

\* maxChoices ranges over 0..MaxChoices.
MaxChoices == 3

\* The quests the lists are drawn from: three agency, two courage and one
\* order quest, with every shape of availability (absent blocks, absent and
\* empty lists, minimums met with equality, required and blocked flags,
\* preferred ranges).
Pool ==
    [ id \in {"quest-a1", "quest-a2", "quest-a3", "quest-c1", "quest-c2",
              "quest-o1"} |->
        CASE id = "quest-a1" ->
                [id |-> id, type |-> "agency",
                 availability |->
                    [stats |-> Empty, flags |-> Empty,
                     relevance |-> [preferredRanges |-> <<"gap">>]]]
          [] id = "quest-a2" ->
                [id |-> id, type |-> "agency",
                 availability |->
                    [stats |-> [minimum |-> [k \in {"agency"} |-> 6]],
                     relevance |-> [preferredRanges |-> <<"gap">>]]]
          [] id = "quest-a3" ->
                [id |-> id, type |-> "agency",
                 availability |->
                    [stats |-> [minimum |-> [k \in {"courage", "order"} |->
                                                IF k = "courage" THEN 3 ELSE 4]],
                     flags |-> [required |-> << >>, blocked |-> << >>],
                     relevance |-> [preferredRanges |-> <<"recent">>]]]
          [] id = "quest-c1" ->
                [id |-> id, type |-> "courage",
                 availability |->
                    [flags |-> [required |-> <<"x">>],
                     relevance |-> [preferredRanges |-> << >>]]]
          [] id = "quest-c2" ->
                [id |-> id, type |-> "courage",
                 availability |->
                    [flags |-> [blocked |-> <<"x">>],
                     relevance |-> [preferredRanges |-> <<"gap", "long_gap">>]]]
          [] id = "quest-o1" ->
                [id |-> id, type |-> "order", availability |-> Empty] ]

\* The lists of at most MaxLen distinct quests of the pool, in every order.
QuestLists ==
    UNION { { [i \in 1..n |-> Pool[ids[i]]] :
                ids \in { f \in [1..n -> DOMAIN Pool] :
                            \A i, j \in 1..n : i # j => f[i] # f[j] } } :
            n \in 0..MaxLen }

\* The states the pipeline is called on: the stats of a new player or stats
\* that meet the agency minimum and miss the courage one, flag x present or
\* not, and each range with timestamps that give it.
RuleStates ==
    [stats : { [agency |-> 5, courage |-> 3, order |-> 4],
               [agency |-> 6, courage |-> 2, order |-> 4] },
     flags : { {}, {"x"} },
     timeContext :
        { tc \in [range : TimeRanges,
                  nowMs : {LONG_GAP},
                  lastMeaningfulActionMs : {0, RECENT, LONG_GAP}] :
            tc.range = computeTimeRange(tc.lastMeaningfulActionMs, tc.nowMs) }]

RulesInit ==
    /\ state \in RuleStates
    /\ events = << >>
    /\ call = NoCall
    /\ tickRun = NoRun
    /\ PureIdle
    /\ WorkerIdle

\* filterAvailableQuests(state, quests, nowMs)
FilterAvailableQuests ==
    /\ rules.op = "none"
    /\ \E quests \in QuestLists :
            rules' = [op |-> "filterAvailableQuests",
                      quests |-> quests,
                      nowMs |-> state.timeContext.nowMs,
                      maxChoices |-> 0,
                      result |-> filterAvailableQuests(state, quests,
                                                       state.timeContext.nowMs)]
    /\ UNCHANGED <<engineVars, narr, ser, completedIds, workerVars>>

\* rankQuests(state, quests, nowMs)
RankQuests ==
    /\ rules.op = "none"
    /\ \E quests \in QuestLists :
            rules' = [op |-> "rankQuests",
                      quests |-> quests,
                      nowMs |-> state.timeContext.nowMs,
                      maxChoices |-> 0,
                      result |-> rankQuests(state, quests, state.timeContext.nowMs)]
    /\ UNCHANGED <<engineVars, narr, ser, completedIds, workerVars>>

\* selectQuestChoices(state, quests, nowMs, maxChoices)
SelectQuestChoices ==
    /\ rules.op = "none"
    /\ \E quests \in QuestLists, maxChoices \in 0..MaxChoices :
            rules' = [op |-> "selectQuestChoices",
                      quests |-> quests,
                      nowMs |-> state.timeContext.nowMs,
                      maxChoices |-> maxChoices,
                      result |-> selectQuestChoices(state, quests,
                                                    state.timeContext.nowMs,
                                                    maxChoices)]
    /\ UNCHANGED <<engineVars, narr, ser, completedIds, workerVars>>

\* chooseQuests(state, quests, nowMs, maxChoices)
ChooseQuests ==
    /\ rules.op = "none"
    /\ \E quests \in QuestLists, maxChoices \in 0..MaxChoices :
            rules' = [op |-> "chooseQuests",
                      quests |-> quests,
                      nowMs |-> state.timeContext.nowMs,
                      maxChoices |-> maxChoices,
                      result |-> chooseQuests(state, quests,
                                              state.timeContext.nowMs,
                                              maxChoices)]
    /\ UNCHANGED <<engineVars, narr, ser, completedIds, workerVars>>

RulesNext ==
    FilterAvailableQuests \/ RankQuests \/ SelectQuestChoices \/ ChooseQuests

RulesSpec == RulesInit /\ [][RulesNext]_vars

----------------------------------------------------------------------------
(* Narrative layer: engine events to a player-facing summary.  A text is   *)
(* the sequence of its characters.                                         *)

\* Array.prototype.join
RECURSIVE Join(_, _)
Join(texts, separator) ==
    IF Len(texts) = 0 THEN << >>
    ELSE IF Len(texts) = 1 THEN texts[1]
    ELSE texts[1] \o separator \o Join(Tail(texts), separator)

getQuestTypeLabel(questType) ==
    CASE questType = "agency" -> <<"A", "g", "e", "n", "c", "y">>
      [] questType = "courage" -> <<"C", "o", "u", "r", "a", "g", "e">>
      [] questType = "order" -> <<"O", "r", "d", "e", "r">>

getStatLabel(stat) ==
    CASE stat = "agency" -> <<"A", "g", "e", "n", "c", "y">>
      [] stat = "courage" -> <<"C", "o", "u", "r", "a", "g", "e">>
      [] stat = "order" -> <<"O", "r", "d", "e", "r">>

summarizeQuestCompleted(event) ==
    LET questTypeLabel == getQuestTypeLabel(event.questType)
    IN  [tone |-> "warm",
         title |->
        \* "Action completed"
        <<"A", "c", "t", "i", "o", "n", " ", "c", "o", "m", "p", "l", "e",
          "t", "e", "d">>,
         line |->
        \* "You took a step. "
        <<"Y", "o", "u", " ", "t", "o", "o", "k", " ", "a", " ", "s", "t",
          "e", "p", ".", " ">>
            \o questTypeLabel \o
        \* " grows through action, not planning."
        <<" ", "g", "r", "o", "w", "s", " ", "t", "h", "r", "o", "u", "g",
          "h", " ", "a", "c", "t", "i", "o", "n", ",", " ", "n", "o", "t",
          " ", "p", "l", "a", "n", "n", "i", "n", "g", ".">>,
         shareText |->
        \* "Completed a "
        <<"C", "o", "m", "p", "l", "e", "t", "e", "d", " ", "a", " ">>
            \o questTypeLabel \o
        \* " quest. Small steps compound."
        <<" ", "q", "u", "e", "s", "t", ".", " ", "S", "m", "a", "l", "l",
          " ", "s", "t", "e", "p", "s", " ", "c", "o", "m", "p", "o", "u",
          "n", "d", ".">>]

\* Mutant: a quest_started summary carries a share text too.
summarizeQuestStarted_shared(event) ==
    [tone |-> "calm",
     title |->
        \* "Quest started"
        <<"Q", "u", "e", "s", "t", " ", "s", "t", "a", "r", "t", "e", "d">>,
     line |->
        \* "You began. Starting is enough. The rest will follow."
        <<"Y", "o", "u", " ", "b", "e", "g", "a", "n", ".", " ", "S", "t",
          "a", "r", "t", "i", "n", "g", " ", "i", "s", " ", "e", "n", "o",
          "u", "g", "h", ".", " ", "T", "h", "e", " ", "r", "e", "s", "t",
          " ", "w", "i", "l", "l", " ", "f", "o", "l", "l", "o", "w", ".">>,
     shareText |->
        \* "Started a quest."
        <<"S", "t", "a", "r", "t", "e", "d", " ", "a", " ", "q", "u", "e",
          "s", "t", ".">>]

summarizeQuestStarted(event) ==
    [tone |-> "calm",
     title |->
        \* "Quest started"
        <<"Q", "u", "e", "s", "t", " ", "s", "t", "a", "r", "t", "e", "d">>,
     line |->
        \* "You began. Starting is enough. The rest will follow."
        <<"Y", "o", "u", " ", "b", "e", "g", "a", "n", ".", " ", "S", "t",
          "a", "r", "t", "i", "n", "g", " ", "i", "s", " ", "e", "n", "o",
          "u", "g", "h", ".", " ", "T", "h", "e", " ", "r", "e", "s", "t",
          " ", "w", "i", "l", "l", " ", "f", "o", "l", "l", "o", "w", ".">>]

\* Mutant: the re-entry line speaks of what was missed.
summarizeReEntrySuggested_guilt(event) ==
    [tone |-> "calm",
     title |->
        \* "Return to action"
        <<"R", "e", "t", "u", "r", "n", " ", "t", "o", " ", "a", "c", "t",
          "i", "o", "n">>,
     line |->
        \* "You missed some days. A small step awaits when you're ready."
        <<"Y", "o", "u", " ", "m", "i", "s", "s", "e", "d", " ", "s", "o",
          "m", "e", " ", "d", "a", "y", "s", ".", " ", "A", " ", "s", "m",
          "a", "l", "l", " ", "s", "t", "e", "p", " ", "a", "w", "a", "i",
          "t", "s", " ", "w", "h", "e", "n", " ", "y", "o", "u", "'", "r",
          "e", " ", "r", "e", "a", "d", "y", ".">>]

summarizeReEntrySuggested(event) ==
    [tone |-> "calm",
     title |->
        \* "Return to action"
        <<"R", "e", "t", "u", "r", "n", " ", "t", "o", " ", "a", "c", "t",
          "i", "o", "n">>,
     line |->
        \* "Time away is information, not judgment. A small step awaits when you're ready."
        <<"T", "i", "m", "e", " ", "a", "w", "a", "y", " ", "i", "s", " ",
          "i", "n", "f", "o", "r", "m", "a", "t", "i", "o", "n", ",", " ",
          "n", "o", "t", " ", "j", "u", "d", "g", "m", "e", "n", "t", ".",
          " ", "A", " ", "s", "m", "a", "l", "l", " ", "s", "t", "e", "p",
          " ", "a", "w", "a", "i", "t", "s", " ", "w", "h", "e", "n", " ",
          "y", "o", "u", "'", "r", "e", " ", "r", "e", "a", "d", "y", ".">>]

summarizeTimeContextChanged(event) ==
    IF event.newRange = "recent"
    THEN [tone |-> "calm",
          title |->
        \* "Momentum building"
        <<"M", "o", "m", "e", "n", "t", "u", "m", " ", "b", "u", "i", "l",
          "d", "i", "n", "g">>,
          line |->
        \* "Recent action shifts context. The path forward feels clearer."
        <<"R", "e", "c", "e", "n", "t", " ", "a", "c", "t", "i", "o", "n",
          " ", "s", "h", "i", "f", "t", "s", " ", "c", "o", "n", "t", "e",
          "x", "t", ".", " ", "T", "h", "e", " ", "p", "a", "t", "h", " ",
          "f", "o", "r", "w", "a", "r", "d", " ", "f", "e", "e", "l", "s",
          " ", "c", "l", "e", "a", "r", "e", "r", ".">>]
    ELSE IF event.newRange = "gap" \/ event.newRange = "long_gap"
    THEN [tone |-> "calm",
          title |->
        \* "Time passed"
        <<"T", "i", "m", "e", " ", "p", "a", "s", "s", "e", "d">>,
          line |->
        \* "Context shifted. When you return, a small step will be waiting."
        <<"C", "o", "n", "t", "e", "x", "t", " ", "s", "h", "i", "f", "t",
          "e", "d", ".", " ", "W", "h", "e", "n", " ", "y", "o", "u", " ",
          "r", "e", "t", "u", "r", "n", ",", " ", "a", " ", "s", "m", "a",
          "l", "l", " ", "s", "t", "e", "p", " ", "w", "i", "l", "l", " ",
          "b", "e", " ", "w", "a", "i", "t", "i", "n", "g", ".">>]
    ELSE [tone |-> "calm",
          title |->
        \* "Context changed"
        <<"C", "o", "n", "t", "e", "x", "t", " ", "c", "h", "a", "n", "g",
          "e", "d">>,
          line |->
        \* "Time moves forward. Your next step remains available."
        <<"T", "i", "m", "e", " ", "m", "o", "v", "e", "s", " ", "f", "o",
          "r", "w", "a", "r", "d", ".", " ", "Y", "o", "u", "r", " ", "n",
          "e", "x", "t", " ", "s", "t", "e", "p", " ", "r", "e", "m", "a",
          "i", "n", "s", " ", "a", "v", "a", "i", "l", "a", "b", "l", "e",
          ".">>]

\* Object.keys(event.deltas): deltas is the list of the object's properties,
\* [key, delta], in insertion order.
ObjectKeys(deltas) == [i \in 1..Len(deltas) |-> deltas[i].key]

summarizeStatChanged(event) ==
    LET keys == ObjectKeys(event.deltas)
        statLabels ==
            Join([i \in 1..Len(keys) |-> getStatLabel(keys[i])],
                 <<" ", "a", "n", "d", " ">>)
    IN  [tone |-> "warm",
         title |->
        \* "Growth noticed"
        <<"G", "r", "o", "w", "t", "h", " ", "n", "o", "t", "i", "c", "e",
          "d">>,
         line |-> statLabels \o
        \* " shifts through action. Patterns emerge over time."
        <<" ", "s", "h", "i", "f", "t", "s", " ", "t", "h", "r", "o", "u",
          "g", "h", " ", "a", "c", "t", "i", "o", "n", ".", " ", "P", "a",
          "t", "t", "e", "r", "n", "s", " ", "e", "m", "e", "r", "g", "e",
          " ", "o", "v", "e", "r", " ", "t", "i", "m", "e", ".">>]

summarizeFlagChanged(event) ==
    IF "flagsSet" \in DOMAIN event /\ Len(event.flagsSet) > 0
    THEN [tone |-> "calm",
          title |->
        \* "Path opened"
        <<"P", "a", "t", "h", " ", "o", "p", "e", "n", "e", "d">>,
          line |->
        \* "Your choices shape what becomes available next."
        <<"Y", "o", "u", "r", " ", "c", "h", "o", "i", "c", "e", "s", " ",
          "s", "h", "a", "p", "e", " ", "w", "h", "a", "t", " ", "b", "e",
          "c", "o", "m", "e", "s", " ", "a", "v", "a", "i", "l", "a", "b",
          "l", "e", " ", "n", "e", "x", "t", ".">>]
    ELSE [tone |-> "calm",
          title |->
        \* "State updated"
        <<"S", "t", "a", "t", "e", " ", "u", "p", "d", "a", "t", "e", "d">>,
          line |->
        \* "Something shifted. The path forward adjusts."
        <<"S", "o", "m", "e", "t", "h", "i", "n", "g", " ", "s", "h", "i",
          "f", "t", "e", "d", ".", " ", "T", "h", "e", " ", "p", "a", "t",
          "h", " ", "f", "o", "r", "w", "a", "r", "d", " ", "a", "d", "j",
          "u", "s", "t", "s", ".">>]

\* events.find((e) => e.type === kind): the set holding the first event of
\* the kind, empty when there is none.
Find(evs, kind) ==
    LET found == {i \in 1..Len(evs) : evs[i].type = kind}
    IN  IF found = {} THEN {}
        ELSE {evs[CHOOSE i \in found : \A j \in found : i <= j]}

\* The summary the template of the event's kind gives.
Template(event) ==
    CASE event.type = "quest_completed" -> summarizeQuestCompleted(event)
      [] event.type = "quest_started" -> summarizeQuestStarted(event)
      [] event.type = "re_entry_suggested" -> summarizeReEntrySuggested(event)
      [] event.type = "time_context_changed" -> summarizeTimeContextChanged(event)
      [] event.type = "stat_changed" -> summarizeStatChanged(event)
      [] event.type = "flag_changed" -> summarizeFlagChanged(event)

SummarizedKinds ==
    <<"quest_completed", "quest_started", "re_entry_suggested",
      "time_context_changed", "stat_changed", "flag_changed">>

\* Mutant: a stat change is summarized before a completion or a start.
summarize_statsFirst(evs, st) ==
    IF Len(evs) = 0 THEN {}
    ELSE IF Find(evs, "stat_changed") # {}
    THEN {summarizeStatChanged(e) : e \in Find(evs, "stat_changed")}
    ELSE IF Find(evs, "quest_completed") # {}
    THEN {summarizeQuestCompleted(e) : e \in Find(evs, "quest_completed")}
    ELSE IF Find(evs, "quest_started") # {}
    THEN {summarizeQuestStarted(e) : e \in Find(evs, "quest_started")}
    ELSE IF Find(evs, "re_entry_suggested") # {}
    THEN {summarizeReEntrySuggested(e) : e \in Find(evs, "re_entry_suggested")}
    ELSE IF Find(evs, "time_context_changed") # {}
    THEN {summarizeTimeContextChanged(e) : e \in Find(evs, "time_context_changed")}
    ELSE IF Find(evs, "flag_changed") # {}
    THEN {summarizeFlagChanged(e) : e \in Find(evs, "flag_changed")}
    ELSE {}

\* Mutant: the first event of the list that has a template is summarized.
summarize_inListOrder(evs, st) ==
    LET known == {i \in 1..Len(evs) : evs[i].type \in Range(SummarizedKinds)}
    IN  IF known = {} THEN {}
        ELSE {Template(evs[CHOOSE i \in known : \A j \in known : i <= j])}

\* summarize(events, state): the set of the summaries returned, empty for
\* null.
summarize(evs, st) ==
    IF Len(evs) = 0 THEN {}
    ELSE IF Find(evs, "quest_completed") # {}
    THEN {summarizeQuestCompleted(e) : e \in Find(evs, "quest_completed")}
    ELSE IF Find(evs, "quest_started") # {}
    THEN {summarizeQuestStarted(e) : e \in Find(evs, "quest_started")}
    ELSE IF Find(evs, "re_entry_suggested") # {}
    THEN {summarizeReEntrySuggested(e) : e \in Find(evs, "re_entry_suggested")}
    ELSE IF Find(evs, "time_context_changed") # {}
    THEN {summarizeTimeContextChanged(e) : e \in Find(evs, "time_context_changed")}
    ELSE IF Find(evs, "stat_changed") # {}
    THEN {summarizeStatChanged(e) : e \in Find(evs, "stat_changed")}
    ELSE IF Find(evs, "flag_changed") # {}
    THEN {summarizeFlagChanged(e) : e \in Find(evs, "flag_changed")}
    ELSE {}

\* The entries of a statChanges object, in the order of its keys.
ObjectEntries(deltas) ==
    LET keys == SelectSeq(<<"agency", "courage", "order">>,
                          LAMBDA k : k \in DOMAIN deltas)
    IN  [i \in 1..Len(keys) |-> [key |-> keys[i], delta |-> deltas[keys[i]]]]

\* The event list of the engine as the narrative layer reads it.
NarrativeEvents(evs) ==
    [i \in 1..Len(evs) |->
        IF evs[i].type = "stat_changed"
        THEN [evs[i] EXCEPT !.deltas = ObjectEntries(evs[i].deltas)]
        ELSE evs[i]]

generateDefaultShareText(questType) ==
    CASE questType = "agency" ->
        \* "Took a step forward. Agency grows through action."
        <<"T", "o", "o", "k", " ", "a", " ", "s", "t", "e", "p", " ", "f",
          "o", "r", "w", "a", "r", "d", ".", " ", "A", "g", "e", "n", "c",
          "y", " ", "g", "r", "o", "w", "s", " ", "t", "h", "r", "o", "u",
          "g", "h", " ", "a", "c", "t", "i", "o", "n", ".">>
      [] questType = "courage" ->
        \* "Spoke a truth. Courage builds through practice."
        <<"S", "p", "o", "k", "e", " ", "a", " ", "t", "r", "u", "t", "h",
          ".", " ", "C", "o", "u", "r", "a", "g", "e", " ", "b", "u", "i",
          "l", "d", "s", " ", "t", "h", "r", "o", "u", "g", "h", " ", "p",
          "r", "a", "c", "t", "i", "c", "e", ".">>
      [] questType = "order" ->
        \* "Removed friction. Order creates space for action."
        <<"R", "e", "m", "o", "v", "e", "d", " ", "f", "r", "i", "c", "t",
          "i", "o", "n", ".", " ", "O", "r", "d", "e", "r", " ", "c", "r",
          "e", "a", "t", "e", "s", " ", "s", "p", "a", "c", "e", " ", "f",
          "o", "r", " ", "a", "c", "t", "i", "o", "n", ".">>

QuestTypes == {"agency", "courage", "order"}

\* Bound: the longest event list handed to summarize.
MaxEvents == 2

\* The non-empty lists of distinct stat keys, as Object.keys can return them.
KeyLists ==
    { <<"agency">>, <<"courage">>, <<"order">>,
      <<"agency", "courage">>, <<"agency", "order">>, <<"courage", "order">>,
      <<"order", "agency">>, <<"agency", "courage", "order">> }

\* The events summarize is tried on: every kind of EngineEvent, every quest
\* type, every range, stat deltas over every non-empty set of stat keys
\* (raising every stat by 1, or lowering courage by 5), and flag changes with
\* flagsSet filled, empty and absent.
EventPool ==
    { [type |-> kind, questId |-> "quest-1", questType |-> questType] :
        kind \in {"quest_completed", "quest_started"}, questType \in QuestTypes }
    \cup { [type |-> "re_entry_suggested", currentRange |-> range] :
            range \in {"gap", "long_gap"} }
    \cup { [type |-> "time_context_changed",
            previousRange |-> IF range = "recent" THEN "long_gap" ELSE "recent",
            newRange |-> range] : range \in TimeRanges }
    \cup { [type |-> "stat_changed",
            deltas |-> [i \in 1..Len(keys) |-> [key |-> keys[i], delta |-> 1]]] :
            keys \in KeyLists }
    \cup { [type |-> "stat_changed",
            deltas |-> << [key |-> "courage", delta |-> -5] >>] }
    \cup { [type |-> "flag_changed", flagsSet |-> <<"flag-a">>],
           [type |-> "flag_changed", flagsSet |-> << >>,
            flagsCleared |-> <<"flag-a">>],
           [type |-> "flag_changed", flagsCleared |-> <<"flag-a">>] }
    \cup { [type |-> "quests_unlocked", questIds |-> <<"quest-2">>] }

EventLists == UNION { [1..n -> EventPool] : n \in 0..MaxEvents }

\* The state of a new player.
DefaultState ==
    [stats |-> [agency |-> 5, courage |-> 3, order |-> 4],
     flags |-> {},
     timeContext |-> [range |-> "long_gap", nowMs |-> 0,
                      lastMeaningfulActionMs |-> Undefined]]

NarrativeInit ==
    /\ state = DefaultState
    /\ events = << >>
    /\ call = NoCall
    /\ tickRun = NoRun
    /\ PureIdle
    /\ WorkerIdle

\* summarize(events, state)
Summarize ==
    /\ narr.op = "none"
    /\ \E evs \in EventLists :
            narr' = [op |-> "summarize", events |-> evs,
                     result |-> summarize(evs, state)]
    /\ UNCHANGED <<engineVars, rules, ser, completedIds, workerVars>>

\* generateDefaultShareText(questType)
GenerateDefaultShareText ==
    /\ narr.op = "none"
    /\ \E questType \in QuestTypes :
            narr' = [op |-> "generateDefaultShareText", questType |-> questType,
                     text |-> generateDefaultShareText(questType)]
    /\ UNCHANGED <<engineVars, rules, ser, completedIds, workerVars>>

NarrativeNext == Summarize \/ GenerateDefaultShareText

NarrativeSpec == NarrativeInit /\ [][NarrativeNext]_vars

----------------------------------------------------------------------------
(* Storage format.  Here a JavaScript Set is the list of its elements in   *)
(* insertion order, an array is a list, and an optional property is a      *)
(* record field that may be absent.                                        *)

\* new Set(list): the elements of the list, each at its first occurrence.
NewSet(list) ==
    SelectSeq([i \in 1..Len(list) |->
                    [value |-> list[i],
                     first |-> \A j \in 1..(i - 1) : list[j] # list[i]]],
              LAMBDA item : item.first)

SetValues(set) == [i \in 1..Len(set) |-> set[i].value]

\* Array.from(set)
ArrayFrom(set) == set

\* Mutant: completedAtByQuestId is not stored.
serializeState_noCompletedAt(st, completedQuestIds, completedAtByQuestId) ==
    [stats |-> st.stats,
     flags |-> ArrayFrom(st.flags),
     timeContext |-> st.timeContext,
     completedQuestIds |-> completedQuestIds,
     completedAtByQuestId |-> Empty]

serializeState(st, completedQuestIds, completedAtByQuestId) ==
    [stats |-> st.stats,
     flags |-> ArrayFrom(st.flags),
     timeContext |-> st.timeContext,
     completedQuestIds |-> completedQuestIds,
     completedAtByQuestId |-> completedAtByQuestId]

\* serializeState(state): completedQuestIds = [], completedAtByQuestId = {}
serializeStateDefaults(st) == serializeState(st, << >>, Empty)

\* Mutant: an undefined lastMeaningfulActionMs is not copied.
deserializeState_definedOnly(stored) ==
    [stats |-> stored.stats,
     flags |-> SetValues(NewSet(stored.flags)),
     timeContext |->
        IF "lastMeaningfulActionMs" \in DOMAIN stored.timeContext
            /\ stored.timeContext.lastMeaningfulActionMs = Undefined
        THEN [range |-> stored.timeContext.range,
              nowMs |-> stored.timeContext.nowMs]
        ELSE stored.timeContext]

deserializeState(stored) ==
    [stats |-> stored.stats,
     flags |-> SetValues(NewSet(stored.flags)),
     timeContext |-> stored.timeContext]

\* Bound: the longest flags list of a stored snapshot.
MaxFlags == 2

SerFlags == {"flag-a", "flag-b"}

\* Time contexts with lastMeaningfulActionMs absent, undefined and set.
SerTimeContexts ==
    [range : TimeRanges, nowMs : {RECENT}]
    \cup [range : TimeRanges, nowMs : {RECENT},
          lastMeaningfulActionMs : {Undefined, 0}]

SerStats ==
    { [agency |-> 5, courage |-> 3, order |-> 4],
      [agency |-> 0, courage |-> 7, order |-> 4] }

CompletedLists ==
    { << >>, <<"quest-1">>, <<"quest-2", "quest-1">> }

CompletedAtMaps ==
    { Empty,
      [id \in {"quest-1"} |-> 0],
      [id \in {"quest-1", "quest-2"} |-> IF id = "quest-1" THEN 0 ELSE RECENT] }

\* Flag lists of a stored snapshot: any order, repeats included.
StoredFlagLists == UNION { [1..n -> SerFlags] : n \in 0..MaxFlags }

\* In-memory states: the flags are a Set, so no flag is held twice.
SerStates ==
    [stats : SerStats,
     flags : {list \in StoredFlagLists : SetValues(NewSet(list)) = list},
     timeContext : SerTimeContexts]

StoredSnapshots ==
    [stats : SerStats,
     flags : StoredFlagLists,
     timeContext : SerTimeContexts,
     completedQuestIds : CompletedLists,
     completedAtByQuestId : CompletedAtMaps]

SerializationInit ==
    /\ state = DefaultState
    /\ events = << >>
    /\ call = NoCall
    /\ tickRun = NoRun
    /\ PureIdle
    /\ WorkerIdle

\* deserializeState(serializeState(s, completedQuestIds, completedAtByQuestId))
StateRoundTrip ==
    /\ ser.op = "none"
    /\ \E s \in SerStates, ids \in CompletedLists, at \in CompletedAtMaps :
            ser' = [op |-> "stateRoundTrip", input |-> s,
                    output |-> deserializeState(serializeState(s, ids, at))]
    /\ UNCHANGED <<engineVars, rules, narr, completedIds, workerVars>>

\* serializeState(deserializeState(x))
StoredRoundTrip ==
    /\ ser.op = "none"
    /\ \E x \in StoredSnapshots :
            ser' = [op |-> "storedRoundTrip", input |-> x,
                    output |-> serializeStateDefaults(deserializeState(x))]
    /\ UNCHANGED <<engineVars, rules, narr, completedIds, workerVars>>

\* The round trip of a worker request that changes nothing: getStateFromDO
\* keeps the completion data of the snapshot beside the deserialized state
\* and setStateInDO hands both to serializeState.
StoredRoundTripMerged ==
    /\ ser.op = "none"
    /\ \E x \in StoredSnapshots :
            ser' = [op |-> "storedRoundTripMerged", input |-> x,
                    output |-> serializeState(deserializeState(x),
                                              x.completedQuestIds,
                                              x.completedAtByQuestId)]
    /\ UNCHANGED <<engineVars, rules, narr, completedIds, workerVars>>

SerializationNext == StateRoundTrip \/ StoredRoundTrip \/ StoredRoundTripMerged

SerializationSpec == SerializationInit /\ [][SerializationNext]_vars

----------------------------------------------------------------------------
(* The shipped quest catalog, and the engine run on it.                    *)

ShippedCatalog ==
    [id \in {"v1-reentry-agency-1", "v1-agency-uncertain-start",
             "v1-courage-difficult-truth", "v1-order-remove-friction"} |->
        CASE id = "v1-reentry-agency-1" ->
                [id |-> id, type |-> "agency",
                 consequence |->
                    [statChanges |-> [k \in {"agency"} |-> 1],
                     flagsToSet |-> <<"returned-to-action">>,
                     unlocksQuests |-> << >>],
                 availability |->
                    [stats |-> Empty,
                     flags |-> [blocked |-> <<"returned-to-action">>],
                     relevance |-> [preferredRanges |-> <<"gap", "long_gap">>]]]
          [] id = "v1-agency-uncertain-start" ->
                [id |-> id, type |-> "agency",
                 consequence |->
                    [statChanges |-> [k \in {"agency"} |-> 1],
                     flagsToSet |-> <<"began-without-clarity">>,
                     unlocksQuests |-> << >>],
                 availability |->
                    [stats |-> [minimum |-> [k \in {"agency"} |-> 3]],
                     flags |-> Empty,
                     relevance |-> [preferredRanges |-> <<"recent", "gap">>]]]
          [] id = "v1-courage-difficult-truth" ->
                [id |-> id, type |-> "courage",
                 consequence |->
                    [statChanges |-> [k \in {"courage"} |-> 1],
                     flagsToSet |-> <<"spoke-difficult-truth">>,
                     unlocksQuests |-> << >>],
                 availability |->
                    [stats |-> [minimum |-> [k \in {"courage"} |-> 2]],
                     flags |-> Empty,
                     relevance |-> [preferredRanges |-> <<"recent", "gap">>]]]
          [] id = "v1-order-remove-friction" ->
                [id |-> id, type |-> "order",
                 consequence |->
                    [statChanges |-> [k \in {"order"} |-> 1],
                     flagsToSet |-> <<"removed-friction">>,
                     unlocksQuests |-> << >>],
                 availability |->
                    [stats |-> [minimum |-> [k \in {"order"} |-> 2]],
                     flags |-> Empty,
                     relevance |-> [preferredRanges |-> <<"recent", "gap">>]]] ]

\* catalog.listAll(): the quests in the insertion order of the Map.
ShippedListAll ==
    << ShippedCatalog["v1-reentry-agency-1"],
       ShippedCatalog["v1-agency-uncertain-start"],
       ShippedCatalog["v1-courage-difficult-truth"],
       ShippedCatalog["v1-order-remove-friction"] >>

\* The quest ids a caller can name: the shipped ones and one the catalog
\* does not hold.
ShippedQuestIds == DOMAIN ShippedCatalog \cup {"missing"}

\* startQuest(state, questId, catalog, nowMs), the catalog being the function
\* from the ids it holds to their quests.
startQuestIn(catalog, st, questId, nowMs) ==
    IF questId \notin DOMAIN catalog
    THEN [state |-> st, events |-> << >>]
    ELSE applyQuestStarted(st, questId, catalog[questId].type, nowMs)

\* Mutant: a quest that is not available is not completed.
completeQuestIn_gated(catalog, st, questId, nowMs) ==
    IF questId \notin DOMAIN catalog
    THEN [state |-> st, events |-> << >>]
    ELSE IF ~isQuestAvailable(st, catalog[questId], nowMs)
    THEN [state |-> st, events |-> << >>]
    ELSE applyQuestCompleted(st, catalog[questId], nowMs)

\* completeQuest(state, questId, catalog, nowMs)
completeQuestIn(catalog, st, questId, nowMs) ==
    IF questId \notin DOMAIN catalog
    THEN [state |-> st, events |-> << >>]
    ELSE applyQuestCompleted(st, catalog[questId], nowMs)

\* getAvailableQuests(state, catalog, nowMs), allQuests being
\* catalog.listAll()
getAvailableQuests(st, allQuests, nowMs) ==
    IF Len(allQuests) = 0
    THEN << >>
    ELSE chooseQuests(st, allQuests, nowMs, 3)

\* The times the engine is called at: the same moment, two days and a week
\* later.
ShippedTimes == {0, RECENT, LONG_GAP}

ShippedInit ==
    /\ state = DefaultState
    /\ events = << >>
    /\ call = NoCall
    /\ tickRun = NoRun
    /\ PureIdle
    /\ WorkerIdle

\* tick(state, nowMs)
ShippedTick ==
    \E nowMs \in ShippedTimes :
        LET r == tick(state, nowMs)
        IN  /\ state' = r.state
            /\ events' = r.events
            /\ UNCHANGED <<call, tickRun, pureVars, completedIds, workerVars>>

\* startQuest(state, questId, catalog, nowMs)
ShippedStartQuest ==
    \E questId \in ShippedQuestIds, nowMs \in ShippedTimes :
        LET r == startQuestIn(ShippedCatalog, state, questId, nowMs)
        IN  /\ state' = r.state
            /\ events' = r.events
            /\ UNCHANGED <<call, tickRun, pureVars, completedIds, workerVars>>

\* completeQuest(state, questId, catalog, nowMs), not taken when it would
\* raise a stat above MaxStat.  completedIds keeps the ids of the catalog
\* quests completed.
ShippedCompleteQuest ==
    \E questId \in ShippedQuestIds, nowMs \in ShippedTimes :
        LET r == completeQuestIn(ShippedCatalog, state, questId, nowMs)
        IN  /\ \A k \in StatKeys : r.state.stats[k] <= MaxStat
            /\ state' = r.state
            /\ events' = r.events
            /\ completedIds' =
                IF questId \in DOMAIN ShippedCatalog
                THEN completedIds \cup {questId}
                ELSE completedIds
            /\ UNCHANGED <<call, tickRun, pureVars, workerVars>>

ShippedNext == ShippedTick \/ ShippedStartQuest \/ ShippedCompleteQuest

ShippedSpec == ShippedInit /\ [][ShippedNext]_vars

----------------------------------------------------------------------------
(* The HTTP worker and the player's durable object.  The durable object    *)
(* handles one fetch at a time; a worker request that changes the state    *)
(* makes two fetches, a GET and a PUT, and other requests run between them. *)

DayMs == 24 * 60 * 60 * 1000

\* Bounds: the requests handled, and the days the clock runs over.
MaxRequests == 2

MaxDays == 1

Requests == 1..MaxRequests

WorkerTimes ==
    {0, DayMs - 1} \cup {d * DayMs : d \in 1..MaxDays} \cup {RECENT, LONG_GAP}

\* The in-memory state the engine works on holds its flags as a set, the
\* serialization as the Set's list of elements: the two views of one state.
EngineState(js) == [js EXCEPT !.flags = Range(js.flags)]

JsState(st) ==
    [st EXCEPT !.flags =
        CHOOSE list \in [1..Cardinality(st.flags) -> st.flags] :
            Range(list) = st.flags]

makeDefaultState(nowMs) ==
    [stats |-> [agency |-> 5, courage |-> 3, order |-> 4],
     flags |-> << >>,
     timeContext |-> [range |-> "long_gap", nowMs |-> nowMs,
                      lastMeaningfulActionMs |-> Undefined],
     completedQuestIds |-> << >>,
     completedAtByQuestId |-> Empty]

\* PlayerStateDO.fetch, GET /get: the snapshot returned and the storage
\* afterwards.  The storage is the set of the values under the key 'state':
\* empty when the key is not there.
DoGet(storage, nowMs) ==
    IF storage = {}
    THEN [state |-> makeDefaultState(nowMs),
          storage |-> {makeDefaultState(nowMs)}]
    ELSE [state |-> CHOOSE stored \in
                        {[s EXCEPT !.timeContext.nowMs = nowMs] : s \in storage} :
                        TRUE,
          storage |-> storage]

\* PlayerStateDO.fetch, PUT /put: the storage afterwards.
DoPut(storage, body) == {body}

\* getStateFromDO, given the snapshot of the GET response.
getStateFromDO(stored) ==
    [state |-> EngineState(deserializeState(stored)),
     completedQuestIds |-> stored.completedQuestIds,
     completedAtByQuestId |-> stored.completedAtByQuestId]

\* setStateInDO: the body of the PUT request.
setStateInDO(st, completedQuestIds, completedAtByQuestId) ==
    serializeState(JsState(st), completedQuestIds, completedAtByQuestId)

\* completedQuestIds.includes(questId) ? completedQuestIds
\*                                     : [...completedQuestIds, questId]
TrackCompleted(completedQuestIds, questId) ==
    IF questId \in Range(completedQuestIds)
    THEN completedQuestIds
    ELSE Append(completedQuestIds, questId)

\* { ...completedAtByQuestId, [questId]: nowMs }
TrackCompletedAt(completedAtByQuestId, questId, nowMs) ==
    [id \in DOMAIN completedAtByQuestId \cup {questId} |->
        IF id = questId THEN nowMs ELSE completedAtByQuestId[id]]

\* The quests the lifecycle tests are written on: one that cannot be repeated
\* and one that can, after a cooldown.
CooldownMs == 1000

MockCatalog ==
    [ id \in {"test-non-repeatable", "test-repeatable"} |->
        CASE id = "test-non-repeatable" ->
                [id |-> id, type |-> "agency",
                 consequence |-> [statChanges |-> [k \in {"agency"} |-> 1]],
                 availability |-> [stats |-> Empty, flags |-> Empty]]
          [] id = "test-repeatable" ->
                [id |-> id, type |-> "courage",
                 consequence |-> [statChanges |-> [k \in {"courage"} |-> 1]],
                 availability |-> [stats |-> Empty, flags |-> Empty],
                 repeatable |-> [cooldownMs |-> CooldownMs]] ]

MockListAll ==
    << MockCatalog["test-non-repeatable"], MockCatalog["test-repeatable"] >>

\* A time of completion, and the last moment within the cooldown and the
\* first one after it.
MockTimes == {0, CooldownMs - 1, CooldownMs}

\* Mutant: a repeatable quest stays out until its cooldown is exceeded.
availableQuests_strictCooldown(allQuests, completedQuestIds, completedAtByQuestId, nowMs) ==
    LET Keep(quest) ==
            IF quest.id \in Range(completedQuestIds)
            THEN /\ "repeatable" \in DOMAIN quest
                 /\ quest.id \in DOMAIN completedAtByQuestId
                 /\ nowMs - completedAtByQuestId[quest.id]
                        > quest.repeatable.cooldownMs
            ELSE TRUE
    IN  SelectSeq(allQuests, Keep)

\* GET /api/quests: the catalog quests left after the completed ones are
\* taken out, a repeatable one staying once its cooldown has passed.
availableQuests(allQuests, completedQuestIds, completedAtByQuestId, nowMs) ==
    LET Keep(quest) ==
            IF quest.id \in Range(completedQuestIds)
            THEN /\ "repeatable" \in DOMAIN quest
                 /\ quest.id \in DOMAIN completedAtByQuestId
                 /\ nowMs - completedAtByQuestId[quest.id]
                        >= quest.repeatable.cooldownMs
            ELSE TRUE
    IN  SelectSeq(allQuests, Keep)

\* The receipts kept for a player.
ReceiptCap == 50

\* Mutant: the list is not capped.
DoPostReceipts_uncapped(stored, receipt) == <<receipt>> \o stored

\* PlayerStateDO.fetch, POST /receipts: the list stored under 'receipts'
\* afterwards.
DoPostReceipts(stored, receipt) ==
    LET updatedReceipts == <<receipt>> \o stored
        cappedReceipts ==
            SubSeq(updatedReceipts, 1,
                   IF Len(updatedReceipts) < ReceiptCap
                   THEN Len(updatedReceipts) ELSE ReceiptCap)
    IN  cappedReceipts

\* The receipt of a completion: the narrative's texts, or the defaults when
\* there is no narrative.
makeReceipt(id, nowMs, questId, quest, narrative) ==
    LET HasText(field) ==
            \E n \in narrative : field \in DOMAIN n /\ Len(n[field]) > 0
        Text(field) == (CHOOSE n \in narrative : TRUE)[field]
    IN  [id |-> id,
         createdAtMs |-> nowMs,
         questId |-> questId,
         questType |-> quest.type,
         tone |-> IF narrative = {} THEN "calm"
                  ELSE (CHOOSE n \in narrative : TRUE).tone,
         title |->
            IF HasText("title") THEN Text("title")
            ELSE
        \* "Action completed"
        <<"A", "c", "t", "i", "o", "n", " ", "c", "o", "m", "p", "l", "e",
          "t", "e", "d">>,
         line |->
            IF HasText("line") THEN Text("line")
            ELSE
        \* "You took a step forward."
        <<"Y", "o", "u", " ", "t", "o", "o", "k", " ", "a", " ", "s", "t",
          "e", "p", " ", "f", "o", "r", "w", "a", "r", "d", ".">>,
         shareText |->
            IF HasText("shareText") THEN Text("shareText")
            ELSE generateDefaultShareText(quest.type)]

IdleRequest == [pc |-> "idle"]

WorkerInit ==
    /\ state = DefaultState
    /\ events = << >>
    /\ call = NoCall
    /\ tickRun = NoRun
    /\ PureIdle
    /\ completedIds = {}
    /\ store = {}
    /\ inflight = [r \in Requests |-> IdleRequest]
    /\ clock = 0
    /\ statTimes = [k \in StatKeys |-> << >>]
    /\ receipts = << >>
    /\ added = 0

\* Date.now() moves on, over the times given.
AdvanceClockIn(times) ==
    /\ \E t \in times : t > clock /\ clock' = t
    /\ UNCHANGED <<engineVars, pureVars, completedIds, store, inflight, statTimes,
                   receipts, added>>

\* POST /api/quests/:id/start or /complete, up to the response of the GET:
\* nowMs is read, the durable object answers the GET, and the request holds
\* the deserialized state and the completion data.
ReadStateIn(catalog, r) ==
    /\ inflight[r].pc = "idle"
    /\ \E kind \in {"start", "complete"}, questId \in DOMAIN catalog \cup {"missing"} :
        LET got == DoGet(store, clock)
            held == getStateFromDO(got.state)
        IN  /\ store' = got.storage
            /\ inflight' =
                [inflight EXCEPT ![r] =
                    [pc |-> "read", kind |-> kind, questId |-> questId,
                     nowMs |-> clock, state |-> held.state,
                     completedQuestIds |-> held.completedQuestIds,
                     completedAtByQuestId |-> held.completedAtByQuestId]]
    /\ UNCHANGED <<engineVars, pureVars, completedIds, clock, statTimes,
                   receipts, added>>

\* The request up to the response of the PUT: the engine is applied to the
\* state held, a completion is tracked, and the durable object stores the
\* body of the PUT.  A start ends here, and so does the completion of a
\* quest the catalog does not hold (404); another completion goes on to save
\* its receipt.  statTimes gets the nowMs of a completion for each stat whose
\* stored value it changed.
WriteStateIn(catalog, r) ==
    /\ inflight[r].pc = "read"
    /\ LET req == inflight[r]
           result ==
                IF req.kind = "start"
                THEN startQuestIn(catalog, req.state, req.questId, req.nowMs)
                ELSE completeQuestIn(catalog, req.state, req.questId, req.nowMs)
           updatedCompletedQuestIds ==
                IF req.kind = "start"
                THEN req.completedQuestIds
                ELSE TrackCompleted(req.completedQuestIds, req.questId)
           updatedCompletedAtByQuestId ==
                IF req.kind = "start"
                THEN req.completedAtByQuestId
                ELSE TrackCompletedAt(req.completedAtByQuestId, req.questId, req.nowMs)
           body == setStateInDO(result.state, updatedCompletedQuestIds,
                                updatedCompletedAtByQuestId)
       IN  /\ store' = DoPut(store, body)
           /\ inflight' =
                [inflight EXCEPT ![r] =
                    [pc |-> IF req.kind = "complete" /\ req.questId \in DOMAIN catalog
                            THEN "saved" ELSE "done",
                     kind |-> req.kind, questId |-> req.questId,
                     nowMs |-> req.nowMs,
                     narrative |-> summarize(NarrativeEvents(result.events),
                                             result.state)]]
           /\ statTimes' =
                [k \in StatKeys |->
                    IF req.kind = "complete"
                        /\ \E stored \in store : body.stats[k] # stored.stats[k]
                    THEN Append(statTimes[k], req.nowMs)
                    ELSE statTimes[k]]
    /\ UNCHANGED <<engineVars, pureVars, completedIds, clock, receipts, added>>

\* The end of a completion: the receipt gets a fresh id and the durable
\* object puts it in front of the receipts it keeps.
SaveReceiptIn(catalog, r) ==
    /\ inflight[r].pc = "saved"
    /\ LET req == inflight[r]
           quest == catalog[req.questId]
           receipt == makeReceipt(added + 1, req.nowMs, req.questId, quest,
                                  req.narrative)
       IN  /\ receipts' = DoPostReceipts(receipts, receipt)
           /\ added' = added + 1
           /\ inflight' = [inflight EXCEPT ![r].pc = "done"]
    /\ UNCHANGED <<engineVars, pureVars, completedIds, store, clock, statTimes>>

\* GET /api/quests: the durable object answers the GET, the completed
\* quests are taken out of the catalog's list and chooseQuests picks up to 3
\* of the rest.  The request keeps what it read, what it handed to
\* chooseQuests and what it answered.
GetQuestsIn(allQuests, r) ==
    /\ inflight[r].pc = "idle"
    /\ LET got == DoGet(store, clock)
           held == getStateFromDO(got.state)
           available == availableQuests(allQuests, held.completedQuestIds,
                                        held.completedAtByQuestId, clock)
           selectedQuests == chooseQuests(held.state, available, clock, 3)
       IN  /\ store' = got.storage
           /\ inflight' =
                [inflight EXCEPT ![r] =
                    [pc |-> "done", kind |-> "quests", questId |-> "missing",
                     nowMs |-> clock, state |-> held.state,
                     completedQuestIds |-> held.completedQuestIds,
                     completedAtByQuestId |-> held.completedAtByQuestId,
                     availableQuests |-> available,
                     quests |-> selectedQuests]]
    /\ UNCHANGED <<engineVars, pureVars, completedIds, clock, statTimes,
                   receipts, added>>

AdvanceClock == AdvanceClockIn(WorkerTimes)

ReadState(r) == ReadStateIn(ShippedCatalog, r)

WriteState(r) == WriteStateIn(ShippedCatalog, r)

SaveReceipt(r) == SaveReceiptIn(ShippedCatalog, r)

GetQuests(r) == GetQuestsIn(ShippedListAll, r)

WorkerNext ==
    \/ AdvanceClock
    \/ \E r \in Requests : ReadState(r)
    \/ \E r \in Requests : WriteState(r)
    \/ \E r \in Requests : SaveReceipt(r)
    \/ \E r \in Requests : GetQuests(r)

WorkerSpec == WorkerInit /\ [][WorkerNext]_vars

\* The worker on the quests of the lifecycle tests, around the cooldown.
LifecycleAdvanceClock == AdvanceClockIn(MockTimes)

LifecycleReadState(r) == ReadStateIn(MockCatalog, r)

LifecycleWriteState(r) == WriteStateIn(MockCatalog, r)

LifecycleSaveReceipt(r) == SaveReceiptIn(MockCatalog, r)

LifecycleGetQuests(r) == GetQuestsIn(MockListAll, r)

LifecycleNext ==
    \/ LifecycleAdvanceClock
    \/ \E r \in Requests : LifecycleReadState(r)
    \/ \E r \in Requests : LifecycleWriteState(r)
    \/ \E r \in Requests : LifecycleSaveReceipt(r)
    \/ \E r \in Requests : LifecycleGetQuests(r)

LifecycleSpec == WorkerInit /\ [][LifecycleNext]_vars

\* The receipts of one player over many completions.  MaxReceipts receipts
\* are added, each at the time of the clock.
MaxReceipts == 52

ReceiptTimes == {0, 1, 2}

ReceiptsAdvanceClock == AdvanceClockIn(ReceiptTimes)

\* POST http://do/receipts with the receipt of a completion of the re-entry
\* quest.
PostReceipt ==
    /\ added < MaxReceipts
    /\ LET questId == "v1-reentry-agency-1"
           result == completeQuestIn(ShippedCatalog, DefaultState, questId, clock)
           narrative == summarize(NarrativeEvents(result.events), result.state)
           receipt == makeReceipt(added + 1, clock, questId,
                                  ShippedCatalog[questId], narrative)
       IN  /\ receipts' = DoPostReceipts(receipts, receipt)
           /\ added' = added + 1
    /\ UNCHANGED <<engineVars, pureVars, completedIds, store, inflight, clock,
                   statTimes>>

ReceiptsNext == ReceiptsAdvanceClock \/ PostReceipt

ReceiptsSpec == WorkerInit /\ [][ReceiptsNext]_vars

----------------------------------------------------------------------------
(* Properties of the engine                                                *)

FoundCall(c, op) == c.op = op /\ HasQuest(c.questId)

HasEvent(evs, kind) == kind \in Kinds(evs)

\* C1. Stat clamping: after completeQuest on a quest of the catalog, each
\* stat key with a delta d in consequence.statChanges is max(0, old + d), and
\* each stat key without a delta keeps its old value.
StatClamping ==
    [][ FoundCall(call', "completeQuest") =>
            LET deltas == StatChangesOf(Catalog[call'.questId].consequence)
            IN  \A k \in StatKeys :
                    state'.stats[k] =
                        IF k \in DOMAIN deltas
                        THEN (IF state.stats[k] + deltas[k] > 0
                              THEN state.stats[k] + deltas[k]
                              ELSE 0)
                        ELSE state.stats[k] ]_vars

\* A completion that raised agency by 2, floored courage at 0 (3 - 5) and
\* left order alone.
StatClampingWitness ==
    /\ call.op = "completeQuest"
    /\ call.questId = "quest-clamp"
    /\ state.stats = [agency |-> 7, courage |-> 0, order |-> 4]

\* C2. Stats are never negative: in every state reached by tick, startQuest
\* and completeQuest, whatever the deltas of the quests, every stat is >= 0.
StatsNeverNegative == \A k \in StatKeys : state.stats[k] >= 0

\* A completion whose delta (-100) is far below the stat it applies to.
StatsNeverNegativeWitness ==
    /\ call.op = "completeQuest"
    /\ call.questId = "quest-drain"
    /\ state.stats.order = 0
    /\ HasEvent(events, "stat_changed")

\* C3. No decay on tick: tick returns the stats, the flags and
\* lastMeaningfulActionMs of its input; only range and nowMs may differ.
NoDecayOnTick ==
    [][ call'.op = "tick" =>
            /\ state'.stats = state.stats
            /\ state'.flags = state.flags
            /\ state'.timeContext.lastMeaningfulActionMs
                    = state.timeContext.lastMeaningfulActionMs ]_vars

\* A tick a week or more after the last meaningful action, which moved the
\* range to long_gap.
NoDecayOnTickWitness ==
    /\ call.op = "tick"
    /\ state.timeContext.lastMeaningfulActionMs # Undefined
    /\ call.nowMs - state.timeContext.lastMeaningfulActionMs >= LONG_GAP
    /\ state.timeContext.range = "long_gap"
    /\ HasEvent(events, "time_context_changed")

\* C4. Edge-triggered re-entry: tick emits re_entry_suggested, once and with
\* currentRange = the newly computed range, if and only if the newly
\* computed range is gap or long_gap and the range stored in the input state
\* was recent.
EdgeTriggeredReEntry ==
    [][ call'.op = "tick" =>
            LET newRange ==
                    computeTimeRange(state.timeContext.lastMeaningfulActionMs,
                                     call'.nowMs)
                edge == /\ newRange \in {"gap", "long_gap"}
                        /\ state.timeContext.range = "recent"
            IN  /\ Count(events', "re_entry_suggested") = (IF edge THEN 1 ELSE 0)
                /\ \A i \in 1..Len(events') :
                        events'[i].type = "re_entry_suggested"
                            => events'[i].currentRange = newRange ]_vars

\* A tick that took the range from gap to long_gap and suggested nothing.
EdgeTriggeredReEntryWitness ==
    /\ call.op = "tick"
    /\ events = << [type |-> "time_context_changed",
                    previousRange |-> "gap",
                    newRange |-> "long_gap"] >>

\* C5. Re-entry is signalled once per absence: a run of ticks with
\* non-decreasing nowMs and no start or completion of a catalog quest in
\* between emits at most one re_entry_suggested, and once it has, the range
\* stays gap or long_gap for the rest of the run.
ReEntryOncePerAbsence ==
    /\ tickRun.reEntries <= 1
    /\ tickRun.reEntries = 1 => state.timeContext.range \in {"gap", "long_gap"}

\* A later tick of a run that has already suggested re-entry: the range
\* changed again and nothing was suggested.
ReEntryOncePerAbsenceWitness ==
    /\ call.op = "tick"
    /\ tickRun.reEntries = 1
    /\ Kinds(events) = {"time_context_changed"}

\* Position of an event kind in the order completeQuest emits them.
CompletionOrder(kind) ==
    CASE kind = "stat_changed" -> 1
      [] kind = "flag_changed" -> 2
      [] kind = "quests_unlocked" -> 3
      [] kind = "time_context_changed" -> 4
      [] kind = "quest_completed" -> 5
      [] OTHER -> 0

\* C6. Completion event order: completeQuest on a catalog quest emits
\* stat_changed, flag_changed, quests_unlocked, time_context_changed,
\* quest_completed in this order, each at most once, and quest_completed
\* {questId, questType} exactly once, as the last event.
CompletionEventOrder ==
    FoundCall(call, "completeQuest") =>
        /\ \A i \in 1..Len(events) : CompletionOrder(events[i].type) > 0
        /\ \A i, j \in 1..Len(events) :
                i < j => CompletionOrder(events[i].type)
                            < CompletionOrder(events[j].type)
        /\ Len(events) >= 1
        /\ events[Len(events)] =
                [type |-> "quest_completed",
                 questId |-> call.questId,
                 questType |-> Catalog[call.questId].type]

\* A completion that emitted all five kinds.
CompletionEventOrderWitness ==
    /\ call.op = "completeQuest"
    /\ Len(events) = 5
    /\ events[4].type = "time_context_changed"

\* C7. Not-found no-op: startQuest and completeQuest with an id absent from
\* the catalog return the input state, equal in every field, and no events.
NotFoundNoOp ==
    [][ (call'.op \in {"startQuest", "completeQuest"} /\ ~HasQuest(call'.questId))
            => state' = state /\ events' = << >> ]_vars

\* A completion of an unknown quest, called at another time than the one
\* stored, on a state a found quest would have changed.
NotFoundNoOpWitness ==
    /\ call.op = "completeQuest"
    /\ call.questId \notin DOMAIN Catalog
    /\ events = << >>
    /\ state.timeContext.range = "gap"
    /\ call.nowMs # state.timeContext.nowMs

\* C8. A meaningful action resets the clock: after startQuest or
\* completeQuest at nowMs on a catalog quest, the time context is
\* {range: recent, nowMs, lastMeaningfulActionMs: nowMs}.
MeaningfulActionResetsClock ==
    [][ (FoundCall(call', "startQuest") \/ FoundCall(call', "completeQuest"))
            => state'.timeContext =
                    [range |-> "recent",
                     nowMs |-> call'.nowMs,
                     lastMeaningfulActionMs |-> call'.nowMs] ]_vars

\* A start that left a long gap behind: the range was long_gap and the
\* clock now stands at a later time.
MeaningfulActionResetsClockWitness ==
    /\ FoundCall(call, "startQuest")
    /\ call.nowMs >= LONG_GAP
    /\ state.timeContext.lastMeaningfulActionMs = call.nowMs
    /\ events[1] = [type |-> "time_context_changed",
                    previousRange |-> "long_gap",
                    newRange |-> "recent"]

\* C9. startQuest does not apply the consequence: on a catalog quest it
\* returns the stats and flags of its input and emits no stat_changed,
\* flag_changed or quests_unlocked.
StartDoesNotApplyConsequence ==
    [][ FoundCall(call', "startQuest") =>
            /\ state'.stats = state.stats
            /\ state'.flags = state.flags
            /\ Kinds(events') \cap
                    {"stat_changed", "flag_changed", "quests_unlocked"} = {} ]_vars

\* A start of the quest whose completion would clear flag-a, set flag-c and
\* raise agency.
StartDoesNotApplyConsequenceWitness ==
    /\ call.op = "startQuest"
    /\ call.questId = "quest-all"
    /\ state.flags = {"flag-a"}
    /\ state.stats.agency = 5

\* C10. startQuest event list: on a catalog quest, time_context_changed
\* {previousRange, newRange: recent} first and only when the stored range was
\* not recent, then exactly one quest_started {questId, questType of the
\* catalog quest}, last.
StartQuestEventList ==
    [][ FoundCall(call', "startQuest") =>
            LET started == [type |-> "quest_started",
                            questId |-> call'.questId,
                            questType |-> Catalog[call'.questId].type]
            IN  events' =
                    IF state.timeContext.range # "recent"
                    THEN << [type |-> "time_context_changed",
                             previousRange |-> state.timeContext.range,
                             newRange |-> "recent"],
                            started >>
                    ELSE << started >> ]_vars

\* A start from a recent range: quest_started alone.
StartQuestEventListWitness ==
    /\ call.op = "startQuest"
    /\ Len(events) = 1
    /\ events[1].type = "quest_started"
    /\ events[1].questType = "courage"

\* C11. tick emits exactly one time_context_changed {previousRange: the
\* stored range, newRange: computeTimeRange(lastMeaningfulActionMs, nowMs)}
\* when the two differ and none when they are equal; the returned range is
\* the newly computed one in both cases.
TickTimeContextChanged ==
    [][ call'.op = "tick" =>
            LET previousRange == state.timeContext.range
                newRange ==
                    computeTimeRange(state.timeContext.lastMeaningfulActionMs,
                                     call'.nowMs)
                changes == {i \in 1..Len(events') :
                                events'[i].type = "time_context_changed"}
            IN  /\ state'.timeContext.range = newRange
                /\ previousRange = newRange => changes = {}
                /\ previousRange # newRange =>
                        /\ Cardinality(changes) = 1
                        /\ \A i \in changes :
                                events'[i] = [type |-> "time_context_changed",
                                              previousRange |-> previousRange,
                                              newRange |-> newRange] ]_vars

\* A tick that found the range changed from recent to gap.
TickTimeContextChangedWitness ==
    /\ call.op = "tick"
    /\ state.timeContext.range = "gap"
    /\ Len(events) = 2
    /\ events[1] = [type |-> "time_context_changed",
                    previousRange |-> "recent",
                    newRange |-> "gap"]

\* The classification C12 states, in days of 24 * 60 * 60 * 1000 ms.
ClassifyElapsed(lastMeaningfulActionMs, nowMs) ==
    LET elapsed == IF nowMs > lastMeaningfulActionMs
                   THEN nowMs - lastMeaningfulActionMs
                   ELSE 0
        dayMs == 24 * 60 * 60 * 1000
    IN  CASE lastMeaningfulActionMs = Undefined -> "long_gap"
          [] lastMeaningfulActionMs # Undefined /\ elapsed < 2 * dayMs -> "recent"
          [] lastMeaningfulActionMs # Undefined /\ elapsed >= 2 * dayMs
                /\ elapsed < 7 * dayMs -> "gap"
          [] lastMeaningfulActionMs # Undefined /\ elapsed >= 7 * dayMs -> "long_gap"

\* C12. computeTimeRange: recent when elapsed < 2 days, gap when 2 days <=
\* elapsed < 7 days, long_gap when elapsed >= 7 days or when
\* lastMeaningfulActionMs is absent, with elapsed = max(0, nowMs -
\* lastMeaningfulActionMs); seen in the range every tick returns.
TimeRangeClassification ==
    call.op = "tick" =>
        state.timeContext.range =
            ClassifyElapsed(state.timeContext.lastMeaningfulActionMs, call.nowMs)

\* A tick exactly two days after the last meaningful action: gap.
TimeRangeClassificationWitness ==
    /\ call.op = "tick"
    /\ state.timeContext.lastMeaningfulActionMs # Undefined
    /\ call.nowMs - state.timeContext.lastMeaningfulActionMs
            = 2 * 24 * 60 * 60 * 1000
    /\ state.timeContext.range = "gap"

\* C13. Flag consequence: after completeQuest on a catalog quest the flags
\* are (old flags + flagsToSet) - flagsToClear.
FlagConsequence ==
    [][ FoundCall(call', "completeQuest") =>
            LET consequence == Catalog[call'.questId].consequence
                toSet == Range(Field(consequence, "flagsToSet"))
                toClear == Range(Field(consequence, "flagsToClear"))
            IN  \A f \in state.flags \cup state'.flags \cup toSet \cup toClear :
                    f \in state'.flags <=>
                        /\ f \in state.flags \/ f \in toSet
                        /\ f \notin toClear ]_vars

\* A completion of the quest that sets and clears flag-a, on a state whose
\* other flag stays: flag-a ends absent.
FlagConsequenceWitness ==
    /\ call.op = "completeQuest"
    /\ call.questId = "quest-both"
    /\ state.flags = {"flag-c"}
    /\ HasEvent(events, "flag_changed")

\* C14. The stat_changed event of completeQuest carries the deltas of
\* consequence.statChanges as requested, not the change after the floor.
StatChangedCarriesRawDeltas ==
    FoundCall(call, "completeQuest") =>
        \A i \in 1..Len(events) :
            events[i].type = "stat_changed" =>
                events[i].deltas = Catalog[call.questId].consequence.statChanges

\* A completion that took courage from 3 to 0 and reports courage: -5.
StatChangedCarriesRawDeltasWitness ==
    /\ call.op = "completeQuest"
    /\ state.stats.courage = 0
    /\ Len(events) >= 1
    /\ events[1].type = "stat_changed"
    /\ events[1].deltas = [k \in {"agency", "courage"} |->
                                IF k = "agency" THEN 2 ELSE -5]

----------------------------------------------------------------------------
(* Properties of the rules pipeline                                        *)

Min(a, b) == IF a <= b THEN a ELSE b

\* Position of a quest in a list of distinct quests.
IndexOf(seq, x) == CHOOSE i \in 1..Len(seq) : seq[i] = x

\* `sub` holds distinct elements of `seq`, in the order they have in `seq`.
InOrderWithin(sub, seq) ==
    /\ Range(sub) \subseteq Range(seq)
    /\ \A i, j \in 1..Len(sub) :
            i < j => IndexOf(seq, sub[i]) < IndexOf(seq, sub[j])

\* The availability gate as C15 states it.
PassesGate(st, quest) ==
    LET av == quest.availability
        minimum == IF "stats" \in DOMAIN av /\ "minimum" \in DOMAIN av.stats
                   THEN av.stats.minimum ELSE Empty
        required == IF "flags" \in DOMAIN av /\ "required" \in DOMAIN av.flags
                    THEN Range(av.flags.required) ELSE {}
        blocked == IF "flags" \in DOMAIN av /\ "blocked" \in DOMAIN av.flags
                   THEN Range(av.flags.blocked) ELSE {}
    IN  /\ \A k \in DOMAIN minimum : st.stats[k] >= minimum[k]
        /\ required \subseteq st.flags
        /\ blocked \cap st.flags = {}

\* A quest whose relevance.preferredRanges contains the range.
PrefersRange(quest, range) ==
    LET av == quest.availability
    IN  /\ "relevance" \in DOMAIN av
        /\ "preferredRanges" \in DOMAIN av.relevance
        /\ \E i \in 1..Len(av.relevance.preferredRanges) :
                av.relevance.preferredRanges[i] = range

Types(quests) == {quests[i].type : i \in 1..Len(quests)}

\* C15. filterAvailableQuests returns exactly the quests that pass the gate
\* (every stat minimum met, equality included; every required flag present;
\* no blocked flag present), in input order.
FilterCorrectness ==
    rules.op = "filterAvailableQuests" =>
        /\ Range(rules.result) = {q \in Range(rules.quests) : PassesGate(state, q)}
        /\ InOrderWithin(rules.result, rules.quests)

\* A list of four quests of which the filter kept one whose minimums are met
\* with equality and dropped one whose minimum is missed by one.
FilterCorrectnessWitness ==
    /\ rules.op = "filterAvailableQuests"
    /\ Len(rules.quests) = 4
    /\ Pool["quest-a3"] \in Range(rules.result)
    /\ Pool["quest-a2"] \in Range(rules.quests) \ Range(rules.result)
    /\ state.stats = [agency |-> 5, courage |-> 3, order |-> 4]

\* Time contexts and nowMs arguments the same stats and flags are tried with.
OtherTimeContexts ==
    [range : TimeRanges, nowMs : {0, LONG_GAP},
     lastMeaningfulActionMs : {Undefined, 0}]

\* C16. Time is never a gate: with any other time context and any nowMs
\* argument, isQuestAvailable answers the same for every quest,
\* filterAvailableQuests returns the same list and chooseQuests the same
\* number of quests.
TimeIsNeverAGate ==
    \A tc \in OtherTimeContexts, nowMs \in {0, RECENT} :
        LET other == [state EXCEPT !.timeContext = tc]
        IN  /\ \A i \in 1..Len(rules.quests) :
                    isQuestAvailable(other, rules.quests[i], nowMs)
                        <=> isQuestAvailable(state, rules.quests[i], rules.nowMs)
            /\ rules.op = "filterAvailableQuests" =>
                    filterAvailableQuests(other, rules.quests, nowMs) = rules.result
            /\ rules.op = "chooseQuests" =>
                    Len(chooseQuests(other, rules.quests, nowMs, rules.maxChoices))
                        = Len(rules.result)

\* chooseQuests on a recent state returned a quest that prefers gap only.
TimeIsNeverAGateWitness ==
    /\ rules.op = "chooseQuests"
    /\ state.timeContext.range = "recent"
    /\ Pool["quest-a2"] \in Range(rules.result)
    /\ Len(rules.result) = 3

\* C17. rankQuests is a stable two-way partition: a permutation of its input,
\* the quests preferring the current range first, the others after, each
\* group in its original relative order.
RankStablePartition ==
    rules.op = "rankQuests" =>
        LET range == state.timeContext.range
            result == rules.result
        IN  /\ Len(result) = Len(rules.quests)
            /\ Range(result) = Range(rules.quests)
            /\ \A i, j \in 1..Len(result) :
                    i < j =>
                        \/ PrefersRange(result[i], range)
                                /\ ~PrefersRange(result[j], range)
                        \/ /\ PrefersRange(result[i], range)
                                <=> PrefersRange(result[j], range)
                           /\ IndexOf(rules.quests, result[i])
                                < IndexOf(rules.quests, result[j])

\* Two matched quests moved in front of an unmatched first quest, and two
\* unmatched quests after them.
RankStablePartitionWitness ==
    /\ rules.op = "rankQuests"
    /\ state.timeContext.range = "gap"
    /\ Len(rules.quests) = 4
    /\ rules.result = << rules.quests[2], rules.quests[4],
                         rules.quests[1], rules.quests[3] >>

\* C18. selectQuestChoices returns exactly min(maxChoices, input length)
\* quests, each an element of the input, none twice.
SelectionSize ==
    rules.op = "selectQuestChoices" =>
        /\ Len(rules.result) = Min(rules.maxChoices, Len(rules.quests))
        /\ Range(rules.result) \subseteq Range(rules.quests)
        /\ Cardinality(Range(rules.result)) = Len(rules.result)

\* A selection the second pass had to fill: four quests of two types, three
\* chosen.
SelectionSizeWitness ==
    /\ rules.op = "selectQuestChoices"
    /\ Len(rules.quests) = 4
    /\ rules.maxChoices = 3
    /\ Len(rules.result) = 3
    /\ Cardinality(Types(rules.quests)) = 2

\* C19. Selection diversity: with more than maxChoices quests in the input,
\* the output of selectQuestChoices holds min(maxChoices, number of types in
\* the input) distinct types; with maxChoices = 3 and all three types in the
\* input, the output is one agency, one courage and one order quest.
SelectionDiversity ==
    rules.op = "selectQuestChoices" =>
        /\ Len(rules.quests) > rules.maxChoices =>
                Cardinality(Types(rules.result))
                    = Min(rules.maxChoices, Cardinality(Types(rules.quests)))
        /\ (rules.maxChoices = 3
                /\ Types(rules.quests) = {"agency", "courage", "order"}) =>
                    /\ Len(rules.result) = 3
                    /\ Types(rules.result) = {"agency", "courage", "order"}

\* Two agency quests first and the only order quest last: the three chosen
\* are one of each type.
SelectionDiversityWitness ==
    /\ rules.op = "selectQuestChoices"
    /\ rules.maxChoices = 3
    /\ Len(rules.quests) = 4
    /\ rules.quests[1].type = "agency"
    /\ rules.quests[2].type = "agency"
    /\ rules.quests[4].type = "order"
    /\ Types(rules.result) = {"agency", "courage", "order"}

\* The available quests of a chooseQuests call that prefer the current range.
TimeMatchedAvailable ==
    {q \in Range(rules.quests) :
        PassesGate(state, q) /\ PrefersRange(q, state.timeContext.range)}

\* C20 as stated: whenever at most maxChoices of the available quests prefer
\* the current range, chooseQuests returns every one of them.
TimeMatchedAllChosen ==
    (rules.op = "chooseQuests"
        /\ Cardinality(TimeMatchedAvailable) <= rules.maxChoices)
            => TimeMatchedAvailable \subseteq Range(rules.result)

\* C20, amended: whenever at most maxChoices of the available quests prefer
\* the current range and no two of them have the same type, or at most
\* maxChoices quests are available at all, chooseQuests returns every
\* available quest that prefers the current range.
TimeMatchedDistinctTypesChosen ==
    (rules.op = "chooseQuests"
        /\ \/ Cardinality({q \in Range(rules.quests) : PassesGate(state, q)})
                    <= rules.maxChoices
           \/ /\ Cardinality(TimeMatchedAvailable) <= rules.maxChoices
              /\ \A p, q \in TimeMatchedAvailable : p # q => p.type # q.type)
            => TimeMatchedAvailable \subseteq Range(rules.result)

\* Four available quests, the two that prefer the current range last in the
\* input: both are chosen, and the first quest of the input is not.
TimeMatchedDistinctTypesChosenWitness ==
    /\ rules.op = "chooseQuests"
    /\ rules.maxChoices = 3
    /\ Len(rules.quests) = 4
    /\ \A i \in 1..4 : PassesGate(state, rules.quests[i])
    /\ TimeMatchedAvailable = {rules.quests[3], rules.quests[4]}
    /\ rules.result[1] = rules.quests[3]
    /\ rules.result[2] = rules.quests[4]
    /\ rules.quests[1] \notin Range(rules.result)

----------------------------------------------------------------------------
(* Properties of the narrative layer                                       *)

\* The kinds of the list that summarize has a template for, and the event
\* the priority order picks: the first event of the first such kind in
\* quest_completed > quest_started > re_entry_suggested >
\* time_context_changed > stat_changed > flag_changed.
PresentRanks(evs) ==
    {p \in 1..Len(SummarizedKinds) :
        \E i \in 1..Len(evs) : evs[i].type = SummarizedKinds[p]}

PriorityEvent(evs) ==
    LET best == CHOOSE p \in PresentRanks(evs) : \A q \in PresentRanks(evs) : p <= q
        first == CHOOSE i \in 1..Len(evs) :
                    /\ evs[i].type = SummarizedKinds[best]
                    /\ \A j \in 1..(i - 1) : evs[j].type # SummarizedKinds[best]
    IN  evs[first]

\* C21. Narrative priority is independent of input order: summarize returns
\* the summary of the first event of the highest-priority kind present,
\* wherever the events stand in the list.
NarrativePriority ==
    (narr.op = "summarize" /\ PresentRanks(narr.events) # {}) =>
        narr.result = {Template(PriorityEvent(narr.events))}

\* A courage completion standing after an agency completion and a start
\* standing after a re-entry suggestion: the completion summarized is the
\* first one, and the start wins over the re-entry suggestion before it.
NarrativePriorityWitness ==
    /\ narr.op = "summarize"
    /\ Len(narr.events) = 2
    /\ narr.events[1].type = "re_entry_suggested"
    /\ narr.events[2].type = "quest_started"
    /\ narr.result = {summarizeQuestStarted(narr.events[2])}

\* C22 as stated: summarize returns null if and only if the event list is
\* empty.
NullOnlyForEmptyList ==
    narr.op = "summarize" => (narr.result = {} <=> Len(narr.events) = 0)

AllPositive(deltas) == \A i \in 1..Len(deltas) : deltas[i].delta > 0

\* C23 as stated: the tone is warm for quest_completed, warm for
\* stat_changed only when its deltas are positive, calm otherwise, and never
\* firm.
SummaryTone ==
    (narr.op = "summarize" /\ PresentRanks(narr.events) # {}) =>
        LET event == PriorityEvent(narr.events)
        IN  \A summary \in narr.result :
                /\ summary.tone # "firm"
                /\ summary.tone =
                    IF event.type = "quest_completed" THEN "warm"
                    ELSE IF event.type = "stat_changed" /\ AllPositive(event.deltas)
                    THEN "warm"
                    ELSE "calm"

\* C24. Summary length caps: title <= 32, line <= 140, shareText <= 180, and
\* shareText is present exactly when the summarized event is quest_completed.
SummaryLengthCaps ==
    (narr.op = "summarize" /\ PresentRanks(narr.events) # {}) =>
        \A summary \in narr.result :
            /\ Len(summary.title) <= 32
            /\ Len(summary.line) <= 140
            /\ "shareText" \in DOMAIN summary => Len(summary.shareText) <= 180
            /\ "shareText" \in DOMAIN summary
                    <=> PriorityEvent(narr.events).type = "quest_completed"

\* The summary of a change of all three stats, its line naming the three, and
\* a completion summary with its share text.
SummaryLengthCapsWitness ==
    /\ narr.op = "summarize"
    /\ Len(narr.events) = 2
    /\ \/ /\ narr.events[2].type = "stat_changed"
          /\ Len(narr.events[2].deltas) = 3
          /\ \E summary \in narr.result : Len(summary.line) = 78
       \/ /\ narr.events[2].type = "quest_completed"
          /\ \E summary \in narr.result : Len(summary.shareText) > 40

\* String.prototype.toLowerCase on the letters A to Z.
UpperCase ==
    <<"A", "B", "C", "D", "E", "F", "G", "H", "I", "J", "K", "L", "M", "N",
      "O", "P", "Q", "R", "S", "T", "U", "V", "W", "X", "Y", "Z">>

LowerCase ==
    <<"a", "b", "c", "d", "e", "f", "g", "h", "i", "j", "k", "l", "m", "n",
      "o", "p", "q", "r", "s", "t", "u", "v", "w", "x", "y", "z">>

ToLowerCase(text) ==
    [i \in 1..Len(text) |->
        IF \E k \in 1..26 : UpperCase[k] = text[i]
        THEN LowerCase[CHOOSE k \in 1..26 : UpperCase[k] = text[i]]
        ELSE text[i]]

\* String.prototype.includes
Contains(text, phrase) ==
    \E start \in 1..(Len(text) - Len(phrase) + 1) :
        \A j \in 1..Len(phrase) : text[start + j - 1] = phrase[j]

\* 'should', 'failed', 'make up for', 'lazy', 'missed', 'no excuses'
GuiltPhrases ==
    {
      <<"s", "h", "o", "u", "l", "d">>,
      <<"f", "a", "i", "l", "e", "d">>,
      <<"m", "a", "k", "e", " ", "u", "p", " ", "f", "o", "r">>,
      <<"l", "a", "z", "y">>,
      <<"m", "i", "s", "s", "e", "d">>,
      <<"n", "o", " ", "e", "x", "c", "u", "s", "e", "s">> }

Guiltless(text) ==
    LET lower == ToLowerCase(text)
    IN  \A phrase \in GuiltPhrases : ~Contains(lower, phrase)

\* C25. No guilt language: the title, line and shareText of every summary and
\* every default share text contain, case-insensitively, none of the guilt
\* phrases.
NoGuiltLanguage ==
    /\ narr.op = "summarize" =>
            \A summary \in narr.result :
                /\ Guiltless(summary.title)
                /\ Guiltless(summary.line)
                /\ "shareText" \in DOMAIN summary => Guiltless(summary.shareText)
    /\ narr.op = "generateDefaultShareText" => Guiltless(narr.text)

\* A re-entry summary, whose line the search does find "judgment" in, read
\* without regard to case ("time away").
NoGuiltLanguageWitness ==
    /\ narr.op = "summarize"
    /\ \E summary \in narr.result :
            /\ summary = summarizeReEntrySuggested(narr.events[1])
            /\ Contains(ToLowerCase(summary.line),
                    <<"j", "u", "d", "g", "m", "e", "n", "t">>)
            /\ Contains(ToLowerCase(summary.line),
                    <<"t", "i", "m", "e", " ", "a", "w", "a", "y">>)
            /\ ~Contains(summary.line,
                    <<"t", "i", "m", "e", " ", "a", "w", "a", "y">>)

----------------------------------------------------------------------------
(* Properties of the storage format                                        *)

\* C26. Round trip state -> stored -> state: the same stats, the same flag
\* set membership and the same timeContext, an absent
\* lastMeaningfulActionMs included.
StateRoundTripEqual ==
    ser.op = "stateRoundTrip" =>
        /\ ser.output.stats = ser.input.stats
        /\ Range(ser.output.flags) = Range(ser.input.flags)
        /\ Len(ser.output.flags) = Len(ser.input.flags)
        /\ DOMAIN ser.output = DOMAIN ser.input
        /\ DOMAIN ser.output.timeContext = DOMAIN ser.input.timeContext
        /\ \A field \in DOMAIN ser.input.timeContext :
                ser.output.timeContext[field] = ser.input.timeContext[field]

\* A state with two flags and an undefined lastMeaningfulActionMs came back.
StateRoundTripEqualWitness ==
    /\ ser.op = "stateRoundTrip"
    /\ Len(ser.input.flags) = 2
    /\ "lastMeaningfulActionMs" \in DOMAIN ser.input.timeContext
    /\ ser.input.timeContext.lastMeaningfulActionMs = Undefined
    /\ ser.output = ser.input

\* Equality of stored snapshots, flags compared as sets.
StoredEqual(x, y) ==
    /\ x.stats = y.stats
    /\ Range(x.flags) = Range(y.flags)
    /\ x.timeContext = y.timeContext
    /\ x.completedQuestIds = y.completedQuestIds
    /\ x.completedAtByQuestId = y.completedAtByQuestId

\* C27 as stated: serialize(deserialize(x)) equals x in stats, flags (as a
\* set), timeContext, completedQuestIds and completedAtByQuestId.
StoredRoundTripEqual ==
    ser.op = "storedRoundTrip" => StoredEqual(ser.output, ser.input)

\* C27, amended: serializeState(deserializeState(x), x.completedQuestIds,
\* x.completedAtByQuestId) equals x, flags compared as sets; without the two
\* completion arguments the result equals x in stats, flags and timeContext
\* and its completedQuestIds and completedAtByQuestId are empty.
StoredRoundTripMergedEqual ==
    /\ ser.op = "storedRoundTripMerged" => StoredEqual(ser.output, ser.input)
    /\ ser.op = "storedRoundTrip" =>
            /\ ser.output.stats = ser.input.stats
            /\ Range(ser.output.flags) = Range(ser.input.flags)
            /\ ser.output.timeContext = ser.input.timeContext
            /\ ser.output.completedQuestIds = << >>
            /\ ser.output.completedAtByQuestId = Empty

\* A snapshot with a flag stored twice and two completed quests: the flag
\* comes back once, the completion data whole.
StoredRoundTripMergedEqualWitness ==
    /\ ser.op = "storedRoundTripMerged"
    /\ ser.input.flags = <<"flag-a", "flag-a">>
    /\ ser.output.flags = <<"flag-a">>
    /\ Len(ser.input.completedQuestIds) = 2
    /\ DOMAIN ser.output.completedAtByQuestId = {"quest-1", "quest-2"}

----------------------------------------------------------------------------
(* Properties of the shipped catalog                                       *)

QuestIdsOf(quests) == {quests[i].id : i \in 1..Len(quests)}

\* C29. The re-entry quest cannot be repeated: once v1-reentry-agency-1 has
\* been completed, no later state reachable through tick, startQuest and
\* completeQuest has it among the quests getAvailableQuests or chooseQuests
\* return, at any time and for any number of choices.
ReentryNotRepeated ==
    "v1-reentry-agency-1" \in completedIds =>
        \A nowMs \in ShippedTimes :
            /\ "v1-reentry-agency-1"
                    \notin QuestIdsOf(getAvailableQuests(state, ShippedListAll, nowMs))
            /\ \A maxChoices \in 0..(Len(ShippedListAll) + 1) :
                    "v1-reentry-agency-1"
                        \notin QuestIdsOf(chooseQuests(state, ShippedListAll,
                                                       nowMs, maxChoices))

\* After the re-entry quest and nothing else was completed, a tick has
\* brought the long gap back, the range the quest prefers: the other three
\* quests are offered, the re-entry quest is not.
ReentryNotRepeatedWitness ==
    /\ completedIds = {"v1-reentry-agency-1"}
    /\ state.timeContext.range = "long_gap"
    /\ state.timeContext.lastMeaningfulActionMs # Undefined
    /\ QuestIdsOf(getAvailableQuests(state, ShippedListAll, state.timeContext.nowMs))
            = DOMAIN ShippedCatalog \ {"v1-reentry-agency-1"}

----------------------------------------------------------------------------
(* Properties of the worker                                                *)

\* The completions of catalog quests the worker has finished handling.
DoneCompletions ==
    {r \in DOMAIN inflight :
        /\ inflight[r].pc \in {"saved", "done"}
        /\ inflight[r].kind = "complete"
        /\ inflight[r].questId \in DOMAIN ShippedCatalog}

\* C28 as stated: no lost update per player.  The stored snapshot reflects
\* every completion handled, as it would with at most one read-modify-write
\* cycle in flight at a time: the quest is among completedQuestIds, its flags
\* are set and each stat stands at its initial value plus 1 for every
\* completion of a quest that raises it.
NoLostUpdate ==
    \A stored \in store :
        /\ \A r \in DoneCompletions :
            /\ inflight[r].questId \in Range(stored.completedQuestIds)
            /\ Range(ShippedCatalog[inflight[r].questId].consequence.flagsToSet)
                    \subseteq Range(stored.flags)
        /\ \A k \in StatKeys :
                stored.stats[k] =
                    makeDefaultState(0).stats[k]
                    + Cardinality({r \in DoneCompletions :
                        k \in DOMAIN ShippedCatalog[inflight[r].questId]
                                        .consequence.statChanges})

\* C30 as stated: two changes of the same stat through the complete endpoint
\* are at least one day apart.
StatChangesADayApart ==
    \A k \in DOMAIN statTimes :
        \A i, j \in 1..Len(statTimes[k]) :
            i < j => statTimes[k][j] - statTimes[k][i] >= DayMs

----------------------------------------------------------------------------
(* Claims about the order of the selection                                 *)

\* The n smallest members of a set of positions.
SmallestN(S, n) == {i \in S : Cardinality({j \in S : j < i}) < n}

\* The k-th smallest member of a set of positions.
KthSmallest(S, k) == CHOOSE i \in S : Cardinality({j \in S : j < i}) = k - 1

\* The positions of a ranked list where a type is met for the first time.
FirstOfType(quests) ==
    {i \in 1..Len(quests) : \A j \in 1..(i - 1) : quests[j].type # quests[i].type}

\* C31. Rank order is respected within each pass: on an input longer than
\* maxChoices the output of selectQuestChoices is, first, the highest-ranked
\* quest of each of the first maxChoices types met in rank order and, then,
\* the highest-ranked quests not yet selected, as many as fill maxChoices;
\* and with maxChoices >= 1 the first-ranked quest of any input is chosen.
SelectionRankOrder ==
    rules.op = "selectQuestChoices" =>
        LET quests == rules.quests
            maxChoices == rules.maxChoices
            pass1 == SmallestN(FirstOfType(quests), maxChoices)
            n1 == Cardinality(pass1)
            pass2 == SmallestN((1..Len(quests)) \ pass1, maxChoices - n1)
            n2 == Cardinality(pass2)
        IN  /\ Len(quests) > maxChoices =>
                /\ Len(rules.result) = n1 + n2
                /\ \A k \in 1..n1 :
                        rules.result[k] = quests[KthSmallest(pass1, k)]
                /\ \A k \in 1..n2 :
                        rules.result[n1 + k] = quests[KthSmallest(pass2, k)]
            /\ (maxChoices >= 1 /\ Len(quests) >= 1) =>
                    Includes(rules.result, quests[1])

\* Two agency quests and then two courage quests, three chosen: the first
\* agency and the first courage quest, then the second agency quest.
SelectionRankOrderWitness ==
    /\ rules.op = "selectQuestChoices"
    /\ rules.maxChoices = 3
    /\ Len(rules.quests) = 4
    /\ rules.quests[1].type = "agency"
    /\ rules.quests[2].type = "agency"
    /\ rules.quests[3].type = "courage"
    /\ rules.quests[4].type = "courage"
    /\ rules.result = <<rules.quests[1], rules.quests[3], rules.quests[2]>>

----------------------------------------------------------------------------
(* Claims about the events of a consequence                                *)

\* C32. Consequence events depend on the payload only: a completeQuest on a
\* found quest emits stat_changed iff statChanges has a key, flag_changed iff
\* flagsToSet or flagsToClear is non-empty and quests_unlocked iff
\* unlocksQuests is non-empty, whatever the state before and after; a quest
\* with an empty consequence emits only quest_completed, preceded by
\* time_context_changed when the range was not recent.
ConsequenceEventsFromPayload ==
    [][ (call'.op = "completeQuest" /\ HasQuest(call'.questId)) =>
            LET quest == getQuestById(call'.questId)
                hasStats == DOMAIN StatChangesOf(quest.consequence) # {}
                hasFlags ==
                    \/ Len(Field(quest.consequence, "flagsToSet")) > 0
                    \/ Len(Field(quest.consequence, "flagsToClear")) > 0
                hasUnlocks == Len(Field(quest.consequence, "unlocksQuests")) > 0
            IN  /\ ("stat_changed" \in Kinds(events')) <=> hasStats
                /\ ("flag_changed" \in Kinds(events')) <=> hasFlags
                /\ ("quests_unlocked" \in Kinds(events')) <=> hasUnlocks
                /\ (~hasStats /\ ~hasFlags /\ ~hasUnlocks) =>
                        /\ events'[Len(events')].type = "quest_completed"
                        /\ Kinds(events') =
                            IF state.timeContext.range = "recent"
                            THEN {"quest_completed"}
                            ELSE {"time_context_changed", "quest_completed"}
                        /\ Len(events') = Cardinality(Kinds(events'))
      ]_vars

\* The second completion of quest-all: agency reaches 7 only through two of
\* them, so flag-c was set already and flag-a cleared already, and
\* flag_changed is emitted all the same.
ConsequenceEventsFromPayloadWitness ==
    /\ call.op = "completeQuest"
    /\ call.questId = "quest-all"
    /\ state.stats["agency"] = 7
    /\ "flag-c" \in state.flags
    /\ "flag_changed" \in Kinds(events)
    /\ "stat_changed" \in Kinds(events)

----------------------------------------------------------------------------
(* Claims about the quests offered                                         *)

\* The answered GET /api/quests requests.
AnsweredQuests ==
    {r \in DOMAIN inflight : inflight[r].pc = "done" /\ inflight[r].kind = "quests"}

\* A quest of the catalog passes the lifecycle filter of a request.
PassesLifecycle(quest, req) ==
    quest.id \in Range(req.completedQuestIds) =>
        /\ "repeatable" \in DOMAIN quest
        /\ quest.id \in DOMAIN req.completedAtByQuestId
        /\ req.nowMs - req.completedAtByQuestId[quest.id]
                >= quest.repeatable.cooldownMs

\* C33. Quest lifecycle filter: GET /api/quests offers a quest whose id is in
\* completedQuestIds only if it is repeatable and nowMs minus its completion
\* time is at least cooldownMs, so a completed non-repeatable quest is never
\* offered; and chooseQuests is handed, in catalog order, exactly the quests
\* that are not completed or have served their cooldown (equality passes).
LifecycleFilter ==
    \A r \in AnsweredQuests :
        LET req == inflight[r]
        IN  /\ \A i \in 1..Len(req.quests) : PassesLifecycle(req.quests[i], req)
            /\ Range(req.quests) \subseteq Range(req.availableQuests)
            /\ Range(req.availableQuests) =
                    {quest \in Range(MockListAll) : PassesLifecycle(quest, req)}
            /\ \A i, j \in 1..Len(req.availableQuests) :
                    i < j => \E a, b \in 1..Len(MockListAll) :
                                /\ a < b
                                /\ MockListAll[a] = req.availableQuests[i]
                                /\ MockListAll[b] = req.availableQuests[j]

\* The repeatable quest, completed, is offered again exactly CooldownMs
\* later.
LifecycleFilterWitness ==
    \E r \in AnsweredQuests :
        LET req == inflight[r]
        IN  /\ "test-repeatable" \in Range(req.completedQuestIds)
            /\ req.nowMs - req.completedAtByQuestId["test-repeatable"] = CooldownMs
            /\ \E i \in 1..Len(req.quests) : req.quests[i].id = "test-repeatable"

----------------------------------------------------------------------------
(* Claims about the receipts                                               *)

\* C34. Receipt history is capped: the stored list holds at most ReceiptCap
\* receipts, and it is the receipts added last, newest first: the newest
\* receipt is always there, and once the list is full each addition drops
\* the oldest one.
ReceiptsCapped ==
    /\ Len(receipts) <= ReceiptCap
    /\ Len(receipts) = Min(added, ReceiptCap)
    /\ \A i \in 1..Len(receipts) : receipts[i].id = added + 1 - i

\* Two receipts have been dropped: the list runs from the 52nd receipt back
\* to the 3rd.
ReceiptsCappedWitness ==
    /\ added = ReceiptCap + 2
    /\ Len(receipts) = ReceiptCap
    /\ receipts[1].id = ReceiptCap + 2
    /\ receipts[ReceiptCap].id = 3

----------------------------------------------------------------------------
(* Claims about the range and its timestamps                               *)

\* The range of a time context is the one its own timestamps give.
RangeConsistent(timeContext) ==
    timeContext.range =
        computeTimeRange(timeContext.lastMeaningfulActionMs, timeContext.nowMs)

\* C35. Range stays consistent with its timestamps: the state returned by a
\* tick, and by a startQuest or completeQuest on a found quest, has the range
\* that computeTimeRange gives for its own lastMeaningfulActionMs and nowMs.
ReturnedRangeConsistent ==
    (\/ call.op = "tick"
     \/ call.op \in {"startQuest", "completeQuest"} /\ HasQuest(call.questId))
        => RangeConsistent(state.timeContext)

\* A tick two days after the last meaningful action returns gap.
ReturnedRangeConsistentWitness ==
    /\ call.op = "tick"
    /\ state.timeContext.lastMeaningfulActionMs # Undefined
    /\ state.timeContext.nowMs - state.timeContext.lastMeaningfulActionMs = RECENT
    /\ state.timeContext.range = "gap"

\* recent, gap, long_gap in the order time moves them.
RangePosition(range) ==
    CASE range = "recent" -> 1
      [] range = "gap" -> 2
      [] range = "long_gap" -> 3

\* C36. Ticking never recovers on its own: a tick on a state whose range is
\* consistent with its timestamps, at a nowMs not before the state's, leaves
\* the range where it was or moves it forward (recent -> gap -> long_gap),
\* and emits no time_context_changed with newRange = recent.  (Such a tick
\* returns a consistent state again, so this covers every run of ticks.)
TickNeverRecovers ==
    [][ (/\ call'.op = "tick"
         /\ RangeConsistent(state.timeContext)
         /\ call'.nowMs >= state.timeContext.nowMs) =>
            /\ RangePosition(state'.timeContext.range)
                    >= RangePosition(state.timeContext.range)
            /\ RangeConsistent(state'.timeContext)
            /\ \A i \in 1..Len(events') :
                    events'[i].type = "time_context_changed" =>
                        events'[i].newRange # "recent"
      ]_vars

\* A tick five days after a quest was started or completed at time RECENT:
\* the range has moved from recent to gap.  (A last meaningful action at
\* RECENT comes from a start or completion, whose state is consistent, and
\* every state that is recent for it has a nowMs before LONG_GAP.)
TickNeverRecoversWitness ==
    /\ call.op = "tick"
    /\ call.nowMs = LONG_GAP
    /\ state.timeContext.lastMeaningfulActionMs = RECENT
    /\ state.timeContext.range = "gap"
    /\ \E i \in 1..Len(events) :
        /\ events[i].type = "time_context_changed"
        /\ events[i].previousRange = "recent"
        /\ events[i].newRange = "gap"

----------------------------------------------------------------------------
(* Claims about the narrative of the engine's events                       *)

\* summarize(result.events, result.state) on what the engine last returned.
EngineNarrative == summarize(NarrativeEvents(events), state)

\* C37. Engine output always has a narrative: on the event list of a tick, a
\* startQuest or a completeQuest, summarize returns null exactly when the
\* list is empty; after a completeQuest on a found quest it returns the
\* completion summary (tone warm, with a shareText), after a startQuest on a
\* found quest the start summary, whatever other events the list holds.
EngineOutputHasNarrative ==
    call.op # "none" =>
        /\ (EngineNarrative = {}) <=> (Len(events) = 0)
        /\ (call.op = "completeQuest" /\ HasQuest(call.questId)) =>
                /\ EngineNarrative =
                        {summarizeQuestCompleted(
                            [type |-> "quest_completed",
                             questId |-> call.questId,
                             questType |-> getQuestById(call.questId).type])}
                /\ \A summary \in EngineNarrative :
                        /\ summary.tone = "warm"
                        /\ "shareText" \in DOMAIN summary
                        /\ Len(summary.shareText) > 0
        /\ (call.op = "startQuest" /\ HasQuest(call.questId)) =>
                EngineNarrative =
                    {summarizeQuestStarted(
                        [type |-> "quest_started",
                         questId |-> call.questId,
                         questType |-> getQuestById(call.questId).type])}

\* The completion of quest-all after a gap: stat_changed, flag_changed,
\* quests_unlocked and time_context_changed come before quest_completed, and
\* the summary is the completion's.
EngineOutputHasNarrativeWitness ==
    /\ call.op = "completeQuest"
    /\ call.questId = "quest-all"
    /\ Len(events) = 5
    /\ events[1].type = "stat_changed"
    /\ EngineNarrative = {summarizeQuestCompleted(events[5])}

----------------------------------------------------------------------------
(* Claims about what a completion needs                                    *)

----------------------------------------------------------------------------
(* Claims about the persisted snapshot                                     *)

\* The parts of a snapshot a request for an unknown quest is to leave alone.
Persisted(stored) ==
    [stats |-> stored.stats,
     flags |-> stored.flags,
     range |-> stored.timeContext.range,
     lastMeaningfulActionMs |-> stored.timeContext.lastMeaningfulActionMs,
     completedQuestIds |-> stored.completedQuestIds,
     completedAtByQuestId |-> stored.completedAtByQuestId]

\* C39 as stated: a completion request for a quest id the catalog does not
\* hold leaves the persisted snapshot untouched (stats, flags, range,
\* lastMeaningfulActionMs, completedQuestIds and completedAtByQuestId keep
\* their values) and creates no receipt.
UnknownQuestLeavesSnapshot ==
    [][ \A r \in Requests :
            (/\ inflight[r].pc = "read"
             /\ inflight'[r].pc # "read"
             /\ inflight[r].kind = "complete"
             /\ inflight[r].questId \notin DOMAIN ShippedCatalog) =>
                /\ \A before \in store, after \in store' :
                        Persisted(after) = Persisted(before)
                /\ receipts' = receipts
                /\ inflight'[r].pc = "done"
      ]_vars

\* C40 as stated: the range used to rank quests reflects the elapsed time at
\* request time: the state GET /api/quests hands to chooseQuests has the
\* range computeTimeRange gives for its lastMeaningfulActionMs and the time
\* of the request, so a last meaningful action 2 days (7 days) old is ranked
\* under gap (long_gap).
RankedUnderCurrentRange ==
    \A r \in AnsweredQuests :
        inflight[r].state.timeContext.range =
            computeTimeRange(inflight[r].state.timeContext.lastMeaningfulActionMs,
                             inflight[r].nowMs)

====
